---- MODULE Spec2Model ----
(***************************************************************************)
(* The time-boxed fetch cache of data_fetch.py (settings store, cache map, *)
(* statistics, retrying fetch, the cached decorator of get_categories.py)  *)
(* and the criteria aggregator of analysis.py, as state machines.          *)
(*                                                                         *)
(* Time is in whole seconds.  One action is one request handler (a Dash    *)
(* callback or the start-up code) run to completion, as in the             *)
(* single-threaded reference design.                                       *)
(***************************************************************************)
EXTENDS Integers, Sequences, FiniteSets, TLC

VARIABLES
    now,            \* time.time(), in seconds
    settings_file,  \* src/settings.json
    cache,          \* _cache: key -> (timestamp, data)
    cache_stats,    \* _cache_stats
    phase,          \* "import", then "idle" between requests and "replying" at
                    \* the end of a handler, before its locals are dropped
    handler,        \* the handler that is replying
    calls,          \* what that handler's fetch calls did and returned
    snapshot,       \* the mapping get_cache_stats returned to that handler
    origin,         \* history: per key, the last undisturbed successful fetch
    table,          \* the table given to the aggregator
    column,         \* the name of its value column (value_key)
    kwargs,         \* the keyword criteria, in order
    args,           \* the function of analysis.py or get_categories.py that is
                    \* applied, with its arguments other than the table
    result,         \* what sum_values_by_criteria returned, or that it raised
    threads         \* the requests in progress when the server runs them in
                    \* threads: per thread, its position and its locals

cvars == <<now, settings_file, cache, cache_stats, phase, handler, calls, snapshot, origin>>

avars == <<table, column, kwargs, args, result, threads>>

vars == <<now, settings_file, cache, cache_stats, phase, handler, calls, snapshot, origin,
          table, column, kwargs, args, result, threads>>

----------------------------------------------------------------------------
(* Program constants *)

DEFAULT_CACHE_DURATION == 300
MAX_RETRIES == 3
SPREADSHEET_NAME == "Budget tracker 2025"

----------------------------------------------------------------------------
(* Bounds of the model *)

MaxTime == 600
MaxLookups == 5
MaxBackoff == 3
MaxRows == 2

\* time advances between requests by this amount
TickStep == DEFAULT_CACHE_DURATION

\* the part of the clock that is due to the sleeps of _fetch_from_sheets
Backoff(t) == t % TickStep

\* worksheet contents read from the spreadsheet: "empty" is a sheet with no
\* rows at all
SheetContents == {"empty", "A"}

\* what the upstream does during one get_transactions call: it makes the
\* first `fails` attempts raise and then returns `content`
TxUpstream ==
    {[fails |-> 0, content |-> c] : c \in SheetContents}
        \cup {[fails |-> f, content |-> "A"] : f \in 1..MAX_RETRIES}

\* what the upstream does during one get_worksheet call
WsUpstream ==
    {[fail |-> FALSE, content |-> c] : c \in SheetContents}
        \cup {[fail |-> TRUE, content |-> "A"]}

\* what the setup page saves: cache_enabled, prefetch_enabled, cache_duration
\* (input with min 30, step 30) and use_fundamental_expenses
SettingsChoices ==
    {[cache_enabled |-> FALSE, prefetch_enabled |-> FALSE, cache_duration |-> 300,
      use_fundamental_expenses |-> TRUE],
     [cache_enabled |-> TRUE, prefetch_enabled |-> TRUE, cache_duration |-> 300,
      use_fundamental_expenses |-> TRUE],
     [cache_enabled |-> TRUE, prefetch_enabled |-> FALSE, cache_duration |-> 30,
      use_fundamental_expenses |-> TRUE]}

----------------------------------------------------------------------------
(* Python values *)

\* None, as returned by _get_cached_data
None == [kind |-> "None", content |-> "none", read_at |-> 0]

\* A fetched payload: what it was computed from and (history) when those
\* rows were read from the upstream sheet.
Payload(kind, content, t) == [kind |-> kind, content |-> content, read_at |-> t]

\* the literal [] returned by get_transactions
EmptyList == Payload("transactions", "empty", 0)

EmptyDict == [k \in {} |-> TRUE]

\* no request runs in a thread of its own
NoThreads == [t \in {} |-> TRUE]

RemoveKey(f, k) == [x \in DOMAIN f \ {k} |-> f[x]]

SetKey(f, k, v) == [x \in DOMAIN f \cup {k} |-> IF x = k THEN v ELSE f[x]]

----------------------------------------------------------------------------
(* Settings store: load_settings / save_settings *)

default_settings ==
    [cache_enabled |-> TRUE,
     cache_duration |-> DEFAULT_CACHE_DURATION,
     prefetch_enabled |-> TRUE,
     debug_mode |-> FALSE]

MissingFile == [state |-> "missing", dict |-> EmptyDict]

\* json.dump(settings_dict, f) over a file opened with 'w'
save_settings(settings_dict) == [state |-> "ok", dict |-> settings_dict]

\* a file that does not parse as JSON (empty, or cut short)
CorruptFile == [state |-> "corrupt", dict |-> EmptyDict]

\* a file holding JSON that is not an object, such as []
NotObjectFile == [state |-> "not_object", dict |-> EmptyDict]

\* returns the settings and the file as load_settings leaves it; `raised`:
\* the assignment settings[key] = value fails on a value that is not a dict
load_settings(file) ==
    CASE file.state = "ok" ->
            [settings |-> [k \in DOMAIN file.dict \cup DOMAIN default_settings |->
                              IF k \in DOMAIN file.dict THEN file.dict[k]
                              ELSE default_settings[k]],
             file |-> file, raised |-> FALSE]
      [] file.state = "not_object" ->
            [settings |-> EmptyDict, file |-> file, raised |-> TRUE]
      [] OTHER ->
            [settings |-> default_settings, file |-> save_settings(default_settings),
             raised |-> FALSE]

get_cache_enabled(file) ==
    LET l == load_settings(file)
    IN  [value |-> l.settings["cache_enabled"], file |-> l.file]

get_cache_duration(file) ==
    LET l == load_settings(file)
    IN  [value |-> l.settings["cache_duration"], file |-> l.file]

----------------------------------------------------------------------------
(* Cache map and statistics.  The operators below thread the module state  *)
(* W = [now, file, cache, stats, log] through the code they model and      *)
(* return the state they leave, with the returned value where there is one.*)

\* _cache_stats at import
InitialStats(t) ==
    [hits |-> 0, misses |-> 0, size |-> 0, saved_api_calls |-> 0, last_cleared |-> t]

\* clear_cache removing only the entries that have expired
clear_cache_expired_only(W) ==
    LET D == get_cache_duration(W.file).value
        left == [k \in {x \in DOMAIN W.cache : W.now - W.cache[x].timestamp <= D} |->
                    W.cache[k]]
    IN  [W EXCEPT !.cache = left,
                  !.stats = [@ EXCEPT !["last_cleared"] = W.now,
                                      !["size"] = Cardinality(DOMAIN left)]]

clear_cache(W) ==
    [W EXCEPT !.cache = EmptyDict,
              !.stats = [@ EXCEPT !["last_cleared"] = W.now, !["size"] = 0]]

ParamStr(row_start, column_start, num_columns) ==
    "{\"column_start\": " \o ToString(column_start)
        \o ", \"num_columns\": " \o ToString(num_columns)
        \o ", \"row_start\": " \o ToString(row_start) \o "}"

_get_cache_key(spreadsheet_name, worksheet_name, param_str) ==
    spreadsheet_name \o ":" \o worksheet_name \o ":" \o param_str

\* the key the cached decorator builds from func.__name__ and one positional argument
CachedKey(func_name, arg) == func_name \o ":" \o arg

\* Variants of _get_cached_data with a plausible slip each.
\* A hit renews the entry's timestamp (sliding expiry).
_get_cached_data_sliding(W, cache_key) ==
    LET en == get_cache_enabled(W.file)
        W0 == [W EXCEPT !.file = en.file]
        dur == get_cache_duration(en.file)
    IN  IF ~en.value \/ cache_key \notin DOMAIN W.cache
        THEN [w |-> [W0 EXCEPT !.stats = [@ EXCEPT !["misses"] = @ + 1]], ret |-> None]
        ELSE IF W.now - W.cache[cache_key].timestamp > dur.value
        THEN LET left == RemoveKey(W.cache, cache_key)
             IN  [w |-> [W0 EXCEPT !.cache = left,
                                   !.stats = [@ EXCEPT !["size"] = Cardinality(DOMAIN left),
                                                       !["misses"] = @ + 1]],
                  ret |-> None]
        ELSE [w |-> [W0 EXCEPT !.cache = [@ EXCEPT ![cache_key].timestamp = W.now],
                               !.stats = [@ EXCEPT !["hits"] = @ + 1,
                                                   !["saved_api_calls"] = @ + 1]],
              ret |-> W.cache[cache_key].data]

\* The enabled flag is not consulted.
_get_cached_data_ignoring_toggle(W, cache_key) ==
    LET dur == get_cache_duration(W.file)
        W0 == [W EXCEPT !.file = dur.file]
    IN  IF cache_key \notin DOMAIN W.cache
        THEN [w |-> [W0 EXCEPT !.stats = [@ EXCEPT !["misses"] = @ + 1]], ret |-> None]
        ELSE IF W.now - W.cache[cache_key].timestamp > dur.value
        THEN LET left == RemoveKey(W.cache, cache_key)
             IN  [w |-> [W0 EXCEPT !.cache = left,
                                   !.stats = [@ EXCEPT !["size"] = Cardinality(DOMAIN left),
                                                       !["misses"] = @ + 1]],
                  ret |-> None]
        ELSE [w |-> [W0 EXCEPT !.stats = [@ EXCEPT !["hits"] = @ + 1,
                                                   !["saved_api_calls"] = @ + 1]],
              ret |-> W.cache[cache_key].data]

\* An entry whose age equals the duration counts as expired (>= for >).
_get_cached_data_strict(W, cache_key) ==
    LET en == get_cache_enabled(W.file)
        W0 == [W EXCEPT !.file = en.file]
        dur == get_cache_duration(en.file)
    IN  IF ~en.value \/ cache_key \notin DOMAIN W.cache
        THEN [w |-> [W0 EXCEPT !.stats = [@ EXCEPT !["misses"] = @ + 1]], ret |-> None]
        ELSE IF W.now - W.cache[cache_key].timestamp >= dur.value
        THEN LET left == RemoveKey(W.cache, cache_key)
             IN  [w |-> [W0 EXCEPT !.cache = left,
                                   !.stats = [@ EXCEPT !["size"] = Cardinality(DOMAIN left),
                                                       !["misses"] = @ + 1]],
                  ret |-> None]
        ELSE [w |-> [W0 EXCEPT !.stats = [@ EXCEPT !["hits"] = @ + 1,
                                                   !["saved_api_calls"] = @ + 1]],
              ret |-> W.cache[cache_key].data]

\* A lookup that finds its entry expired evicts every expired entry.
_get_cached_data_evicting(W, cache_key) ==
    LET en == get_cache_enabled(W.file)
        W0 == [W EXCEPT !.file = en.file]
        dur == get_cache_duration(en.file)
    IN  IF ~en.value \/ cache_key \notin DOMAIN W.cache
        THEN [w |-> [W0 EXCEPT !.stats = [@ EXCEPT !["misses"] = @ + 1]], ret |-> None]
        ELSE IF W.now - W.cache[cache_key].timestamp > dur.value
        THEN LET left == [k \in {x \in DOMAIN W.cache :
                                    W.now - W.cache[x].timestamp <= dur.value} |-> W.cache[k]]
             IN  [w |-> [W0 EXCEPT !.cache = left,
                                   !.stats = [@ EXCEPT !["size"] = Cardinality(DOMAIN left),
                                                       !["misses"] = @ + 1]],
                  ret |-> None]
        ELSE [w |-> [W0 EXCEPT !.stats = [@ EXCEPT !["hits"] = @ + 1,
                                                   !["saved_api_calls"] = @ + 1]],
              ret |-> W.cache[cache_key].data]

\* _get_cached_data deleting an expired entry without recounting the size
_get_cached_data_stale_size(W, cache_key) ==
    LET en == get_cache_enabled(W.file)
    IN  IF ~en.value
        THEN [w |-> [W EXCEPT !.file = en.file,
                              !.stats = [@ EXCEPT !["misses"] = @ + 1]],
              ret |-> None]
        ELSE IF cache_key \notin DOMAIN W.cache
        THEN [w |-> [W EXCEPT !.file = en.file,
                              !.stats = [@ EXCEPT !["misses"] = @ + 1]],
              ret |-> None]
        ELSE LET cached == W.cache[cache_key]
                 dur == get_cache_duration(en.file)
             IN  IF W.now - cached.timestamp > dur.value
                 THEN [w |-> [W EXCEPT !.file = dur.file,
                                       !.cache = RemoveKey(W.cache, cache_key),
                                       !.stats = [@ EXCEPT !["misses"] = @ + 1]],
                       ret |-> None]
                 ELSE [w |-> [W EXCEPT !.file = dur.file,
                                       !.stats = [@ EXCEPT !["hits"] = @ + 1,
                                                           !["saved_api_calls"] = @ + 1]],
                       ret |-> cached.data]

\* returns the cached data, or None
_get_cached_data(W, cache_key) ==
    LET en == get_cache_enabled(W.file)
    IN  IF ~en.value
        THEN [w |-> [W EXCEPT !.file = en.file,
                              !.stats = [@ EXCEPT !["misses"] = @ + 1]],
              ret |-> None]
        ELSE IF cache_key \notin DOMAIN W.cache
        THEN [w |-> [W EXCEPT !.file = en.file,
                              !.stats = [@ EXCEPT !["misses"] = @ + 1]],
              ret |-> None]
        ELSE LET cached == W.cache[cache_key]
                 dur == get_cache_duration(en.file)
             IN  IF W.now - cached.timestamp > dur.value
                 THEN LET left == RemoveKey(W.cache, cache_key)
                      IN  [w |-> [W EXCEPT !.file = dur.file,
                                           !.cache = left,
                                           !.stats = [@ EXCEPT !["size"] = Cardinality(DOMAIN left),
                                                               !["misses"] = @ + 1]],
                           ret |-> None]
                 ELSE [w |-> [W EXCEPT !.file = dur.file,
                                       !.stats = [@ EXCEPT !["hits"] = @ + 1,
                                                           !["saved_api_calls"] = @ + 1]],
                       ret |-> cached.data]

\* _set_cached_data without the early return while caching is disabled
_set_cached_data_ignoring_toggle(W, cache_key, data) ==
    LET en == get_cache_enabled(W.file)
        stored == SetKey(W.cache, cache_key, [timestamp |-> W.now, data |-> data])
    IN  [W EXCEPT !.file = en.file,
                  !.cache = stored,
                  !.stats = [@ EXCEPT !["size"] = Cardinality(DOMAIN stored)]]

_set_cached_data(W, cache_key, data) ==
    LET en == get_cache_enabled(W.file)
    IN  IF en.value
        THEN LET stored == SetKey(W.cache, cache_key, [timestamp |-> W.now, data |-> data])
             IN  [W EXCEPT !.file = en.file,
                           !.cache = stored,
                           !.stats = [@ EXCEPT !["size"] = Cardinality(DOMAIN stored)]]
        ELSE [W EXCEPT !.file = en.file]

----------------------------------------------------------------------------
(* Fetch entry points *)

\* one entry of the log of a handler's fetch calls
\* (`up`: what the upstream did during the call, NoUpstream when it was not asked)
Event(op, key, at, outcome, attempts, slept, raised, ret, up) ==
    [op |-> op, key |-> key, at |-> at, outcome |-> outcome, attempts |-> attempts,
     slept |-> slept, raised |-> raised, ret |-> ret, up |-> up]

NoUpstream == [fails |-> 0, fail |-> FALSE, content |-> "none"]

TxUp(up) == [fails |-> up.fails, fail |-> FALSE, content |-> up.content]

WsUp(up) == [fails |-> 0, fail |-> up.fail, content |-> up.content]

Log(W, e) == [W EXCEPT !.log = Append(@, e)]

\* a constant delay between attempts instead of the exponential one
backoff_delay_fixed(attempt) == 1

\* time.sleep(2 ** attempt)
backoff_delay(attempt) == 2 ^ attempt

\* The for loop of _fetch_from_sheets from iteration `attempt` on, at time t.
\* The upstream makes the first `fails` attempts raise.
RECURSIVE fetch_attempts(_, _, _, _, _)
fetch_attempts(attempt, fails, content, t, slept) ==
    IF attempt >= MAX_RETRIES
    THEN [raised |-> FALSE, values |-> "empty", attempts |-> attempt, now |-> t, slept |-> slept]
    ELSE IF attempt < fails
    THEN IF attempt = MAX_RETRIES - 1
         THEN [raised |-> TRUE, values |-> "empty", attempts |-> attempt + 1,
               now |-> t, slept |-> slept]
         ELSE fetch_attempts(attempt + 1, fails, content, t + backoff_delay(attempt),
                             Append(slept, backoff_delay(attempt)))
    ELSE [raised |-> FALSE, values |-> content, attempts |-> attempt + 1,
          now |-> t, slept |-> slept]

_fetch_from_sheets(t, content, fails) == fetch_attempts(0, fails, content, t, <<>>)

\* get_transactions storing the empty result of a sheet without rows
get_transactions_caching_empty(W, up, spreadsheet_name, worksheet_name) ==
    LET cache_key == _get_cache_key(spreadsheet_name, worksheet_name, "")
        looked == _get_cached_data(W, cache_key)
    IN  IF looked.ret # None
        THEN [w |-> Log(looked.w, Event("get_transactions", cache_key, W.now, "hit",
                                        0, <<>>, FALSE, looked.ret, NoUpstream)),
              ret |-> looked.ret, raised |-> FALSE]
        ELSE LET f == _fetch_from_sheets(W.now, up.content, up.fails)
                 W1 == [looked.w EXCEPT !.now = f.now]
             IN  IF f.raised
                 THEN [w |-> Log(W1, Event("get_transactions", cache_key, W.now, "failed",
                                           f.attempts, f.slept, FALSE, EmptyList, TxUp(up))),
                       ret |-> EmptyList, raised |-> FALSE]
                 ELSE IF f.values = "empty"
                 THEN [w |-> Log(_set_cached_data(W1, cache_key, EmptyList),
                                 Event("get_transactions", cache_key, W.now, "empty",
                                       f.attempts, f.slept, FALSE, EmptyList, TxUp(up))),
                       ret |-> EmptyList, raised |-> FALSE]
                 ELSE LET transactions == Payload("transactions", f.values, W1.now)
                      IN  [w |-> Log(_set_cached_data(W1, cache_key, transactions),
                                     Event("get_transactions", cache_key, W.now, "fetched",
                                           f.attempts, f.slept, FALSE, transactions, TxUp(up))),
                           ret |-> transactions, raised |-> FALSE]

get_transactions(W, up, spreadsheet_name, worksheet_name) ==
    LET cache_key == _get_cache_key(spreadsheet_name, worksheet_name, "")
        looked == _get_cached_data(W, cache_key)
    IN  IF looked.ret # None
        THEN [w |-> Log(looked.w, Event("get_transactions", cache_key, W.now, "hit",
                                        0, <<>>, FALSE, looked.ret, NoUpstream)),
              ret |-> looked.ret, raised |-> FALSE]
        ELSE LET f == _fetch_from_sheets(W.now, up.content, up.fails)
                 W1 == [looked.w EXCEPT !.now = f.now]
             IN  IF f.raised
                 THEN [w |-> Log(W1, Event("get_transactions", cache_key, W.now, "failed",
                                           f.attempts, f.slept, FALSE, EmptyList, TxUp(up))),
                       ret |-> EmptyList, raised |-> FALSE]
                 ELSE IF f.values = "empty"
                 THEN [w |-> Log(W1, Event("get_transactions", cache_key, W.now, "empty",
                                           f.attempts, f.slept, FALSE, EmptyList, TxUp(up))),
                       ret |-> EmptyList, raised |-> FALSE]
                 ELSE LET transactions == Payload("transactions", f.values, W1.now)
                      IN  [w |-> Log(_set_cached_data(W1, cache_key, transactions),
                                     Event("get_transactions", cache_key, W.now, "fetched",
                                           f.attempts, f.slept, FALSE, transactions, TxUp(up))),
                           ret |-> transactions, raised |-> FALSE]

\* get_worksheet degrading to an empty result, as get_transactions does
get_worksheet_degrading(W, up, spreadsheet_name, worksheet_name, row_start, column_start, num_columns) ==
    LET cache_key == _get_cache_key(spreadsheet_name, worksheet_name,
                                    ParamStr(row_start, column_start, num_columns))
        looked == _get_cached_data(W, cache_key)
    IN  IF looked.ret # None
        THEN [w |-> Log(looked.w, Event("get_worksheet", cache_key, W.now, "hit",
                                        0, <<>>, FALSE, looked.ret, NoUpstream)),
              ret |-> looked.ret, raised |-> FALSE]
        ELSE IF up.fail \/ row_start <= 0 \/ up.content = "empty"
        THEN [w |-> Log(looked.w, Event("get_worksheet", cache_key, W.now, "failed",
                                        1, <<>>, FALSE, Payload("dataset", "empty", W.now),
                                        WsUp(up))),
              ret |-> Payload("dataset", "empty", W.now), raised |-> FALSE]
        ELSE LET dataset == Payload("dataset", up.content, W.now)
             IN  [w |-> Log(_set_cached_data(looked.w, cache_key, dataset),
                            Event("get_worksheet", cache_key, W.now, "fetched",
                                  1, <<>>, FALSE, dataset, WsUp(up))),
                  ret |-> dataset, raised |-> FALSE]

get_worksheet(W, up, spreadsheet_name, worksheet_name, row_start, column_start, num_columns) ==
    LET cache_key == _get_cache_key(spreadsheet_name, worksheet_name,
                                    ParamStr(row_start, column_start, num_columns))
        looked == _get_cached_data(W, cache_key)
    IN  IF looked.ret # None
        THEN [w |-> Log(looked.w, Event("get_worksheet", cache_key, W.now, "hit",
                                        0, <<>>, FALSE, looked.ret, NoUpstream)),
              ret |-> looked.ret, raised |-> FALSE]
        ELSE IF up.fail \/ row_start <= 0 \/ up.content = "empty"
        THEN [w |-> Log(looked.w, Event("get_worksheet", cache_key, W.now, "failed",
                                        1, <<>>, TRUE, None, WsUp(up))),
              ret |-> None, raised |-> TRUE]
        ELSE LET dataset == Payload("dataset", up.content, W.now)
             IN  [w |-> Log(_set_cached_data(looked.w, cache_key, dataset),
                            Event("get_worksheet", cache_key, W.now, "fetched",
                                  1, <<>>, FALSE, dataset, WsUp(up))),
                  ret |-> dataset, raised |-> FALSE]

\* the undecorated function of get_categories.py
get_all_categories_api(W, up, spreadsheet_name) ==
    LET d == get_worksheet(W, up, spreadsheet_name, "definitions", 3, 4, 3)
    IN  IF d.raised
        THEN d
        ELSE [w |-> d.w, ret |-> Payload("categories", d.ret.content, d.ret.read_at),
              raised |-> FALSE]

\* wrapper of the cached decorator around get_all_categories_api
cached(W, up, spreadsheet_name) ==
    LET en == get_cache_enabled(W.file)
        W0 == [W EXCEPT !.file = en.file]
        cache_key == CachedKey("get_all_categories_api", spreadsheet_name)
    IN  IF ~en.value
        THEN LET r == get_all_categories_api(W0, up, spreadsheet_name)
             IN  [w |-> Log(r.w, Event("get_all_categories_api", cache_key, W.now,
                                       IF r.raised THEN "failed" ELSE "computed",
                                       0, <<>>, r.raised, r.ret, NoUpstream)),
                  ret |-> r.ret, raised |-> r.raised]
        ELSE LET looked == _get_cached_data(W0, cache_key)
             IN  IF looked.ret # None
                 THEN [w |-> Log(looked.w, Event("get_all_categories_api", cache_key, W.now,
                                                 "hit", 0, <<>>, FALSE, looked.ret, NoUpstream)),
                       ret |-> looked.ret, raised |-> FALSE]
                 ELSE LET r == get_all_categories_api(looked.w, up, spreadsheet_name)
                      IN  IF r.raised
                          THEN [w |-> Log(r.w, Event("get_all_categories_api", cache_key,
                                                     W.now, "failed", 0, <<>>, TRUE, None, NoUpstream)),
                                ret |-> None, raised |-> TRUE]
                          ELSE [w |-> Log(_set_cached_data(r.w, cache_key, r.ret),
                                          Event("get_all_categories_api", cache_key, W.now,
                                                "computed", 0, <<>>, FALSE, r.ret, NoUpstream)),
                                ret |-> r.ret, raised |-> FALSE]

\* prefetch_common_data: both calls inside one try block
prefetch_common_data(W, tx_up, ws_up) ==
    LET l == load_settings(W.file)
        W0 == [W EXCEPT !.file = l.file]
    IN  IF ~l.settings["prefetch_enabled"]
        THEN W0
        ELSE LET t == get_transactions(W0, tx_up, SPREADSHEET_NAME, "transactions")
             IN  get_worksheet(t.w, ws_up, SPREADSHEET_NAME, "definitions", 3, 4, 3).w

\* get_cache_stats without the copy: the extra keys go into _cache_stats and
\* the caller holds the _cache_stats object itself
get_cache_stats_shared(W) ==
    LET stats == W.stats
        total_requests == stats["hits"] + stats["misses"]
        hit_rate == IF total_requests > 0
                    THEN [num |-> stats["hits"], den |-> total_requests]
                    ELSE [num |-> 0, den |-> 1]
        ret == [k \in DOMAIN stats \cup {"hit_rate", "current_size", "cache_age_seconds"} |->
                  CASE k = "hit_rate" -> hit_rate
                    [] k = "current_size" -> Cardinality(DOMAIN W.cache)
                    [] k = "cache_age_seconds" -> W.now - stats["last_cleared"]
                    [] OTHER -> stats[k]]
    IN  [w |-> [W EXCEPT !.stats = ret], shared |-> TRUE, ret |-> ret]

\* get_cache_stats.  hit_rate is the fraction num/den.  `shared` tells whether
\* the returned mapping is the _cache_stats object itself; it is a copy.
get_cache_stats(W) ==
    LET stats == W.stats
        total_requests == stats["hits"] + stats["misses"]
        hit_rate == IF total_requests > 0
                    THEN [num |-> stats["hits"], den |-> total_requests]
                    ELSE [num |-> 0, den |-> 1]
    IN  [w |-> W,
         shared |-> FALSE,
         ret |-> [k \in DOMAIN stats \cup {"hit_rate", "current_size", "cache_age_seconds"} |->
                    CASE k = "hit_rate" -> hit_rate
                      [] k = "current_size" -> Cardinality(DOMAIN W.cache)
                      [] k = "cache_age_seconds" -> W.now - stats["last_cleared"]
                      [] OTHER -> stats[k]]]


----------------------------------------------------------------------------
(* History of undisturbed fetches, kept for stating the claims: origin[k]  *)
(* is the last successful store under key k since caching was last         *)
(* enabled, the duration last changed or the cache was last cleared.       *)

RECURSIVE TrackOrigin(_, _, _)
TrackOrigin(o, log, t) ==
    IF log = <<>>
    THEN o
    ELSE LET e == Head(log)
             o1 == IF e.outcome \in {"fetched", "computed"}
                   THEN SetKey(o, e.key, [t0 |-> t, data |-> e.ret])
                   ELSE o
         IN  TrackOrigin(o1, Tail(log), t)

----------------------------------------------------------------------------
(* analysis.py: the criteria aggregator.  A text is the sequence of its    *)
(* characters; "c" stands for the letter c with caron of the currency      *)
(* suffix.  A table is [columns, rows], a row a function from the columns  *)
(* to texts, as get_transactions builds them from the sheet's strings.     *)

Digits == {"0", "1", "2", "3", "4", "5", "6", "7", "8", "9"}

DigitValue(ch) == CHOOSE d \in 0..9 : ToString(d) = ch

Returned(v) == [raised |-> FALSE, ret |-> v]

Raised == [raised |-> TRUE, ret |-> 0]

Contains(text, ch) == \E i \in 1..Len(text) : text[i] = ch

StartsWith(text, prefix) ==
    /\ Len(prefix) <= Len(text)
    /\ SubSeq(text, 1, Len(prefix)) = prefix

\* str.replace(old, ''), old not empty
RECURSIVE str_replace(_, _)
str_replace(text, old) ==
    IF text = <<>>
    THEN <<>>
    ELSE IF StartsWith(text, old)
         THEN str_replace(SubSeq(text, Len(old) + 1, Len(text)), old)
         ELSE <<Head(text)>> \o str_replace(Tail(text), old)

RECURSIVE str_lstrip(_)
str_lstrip(text) ==
    IF text # <<>> /\ Head(text) = " " THEN str_lstrip(Tail(text)) ELSE text

RECURSIVE str_rstrip(_)
str_rstrip(text) ==
    IF text # <<>> /\ text[Len(text)] = " "
    THEN str_rstrip(SubSeq(text, 1, Len(text) - 1))
    ELSE text

str_strip(text) == str_rstrip(str_lstrip(text))

RECURSIVE DecimalValue(_)
DecimalValue(text) ==
    IF text = <<>>
    THEN 0
    ELSE 10 * DecimalValue(SubSeq(text, 1, Len(text) - 1)) + DigitValue(text[Len(text)])

\* float(text) for texts of digits, signs, blanks and other characters: blanks
\* around the number are allowed, an optional sign, then at least one digit
float(text) ==
    LET t == str_strip(text)
        signed == t # <<>> /\ Head(t) \in {"-", "+"}
        body == IF signed THEN Tail(t) ELSE t
    IN  IF body # <<>> /\ \A i \in 1..Len(body) : body[i] \in Digits
        THEN Returned(IF signed /\ Head(t) = "-" THEN 0 - DecimalValue(body)
                      ELSE DecimalValue(body))
        ELSE Raised

\* DataFrame.empty: no rows or no columns
DataFrameEmpty(df) == Len(df.rows) = 0 \/ df.columns = {}

Compare(op, a, b) ==
    CASE op = <<">">> -> a > b
      [] op = <<"<">> -> a < b
      [] op = <<">", "=">> -> a >= b
      [] op = <<"<", "=">> -> a <= b
      [] op = <<"=", "=">> -> a = b
      [] op = <<"!", "=">> -> a # b

ComparisonOps == {<<">">>, <<"<">>, <<">", "=">>, <<"<", "=">>, <<"=", "=">>, <<"!", "=">>}

RECURSIVE OperatorPrefix(_)
OperatorPrefix(text) ==
    IF text # <<>> /\ Head(text) \in {">", "<", "=", "!"}
    THEN <<Head(text)>> \o OperatorPrefix(Tail(text))
    ELSE <<>>

\* how DataFrame.query reads "<column> <expr>": a comparison operator and
\* a number; anything else makes it raise
ParseComparison(expr) ==
    LET t == str_strip(expr)
        op == OperatorPrefix(t)
        threshold == float(SubSeq(t, Len(op) + 1, Len(t)))
    IN  [raised |-> op \notin ComparisonOps \/ threshold.raised,
         op |-> op,
         threshold |-> threshold.ret]

ContainsText(text, part) ==
    \E i \in 1..Len(text) : StartsWith(SubSeq(text, i, Len(text)), part)

\* any(op in value for op in ['>', '<', '>=', '<=', '==', '!='])
HasOperator(text) ==
    \/ Contains(text, ">")
    \/ Contains(text, "<")
    \/ ContainsText(text, <<"=", "=">>)
    \/ ContainsText(text, <<"!", "=">>)

\* the VALUE_CONDITION step: DataFrame.query, and the manual filter when the
\* query raises; the float() of the manual filter is not guarded
apply_value_condition(rows, value_key, value_condition) ==
    LET q == ParseComparison(value_condition)
    IN  IF ~q.raised
        THEN Returned(SelectSeq(rows, LAMBDA r : Compare(q.op, r[value_key], q.threshold)))
        ELSE IF Contains(value_condition, ">")
        THEN LET threshold == float(str_strip(str_replace(value_condition, <<">">>)))
             IN  IF threshold.raised
                 THEN Raised
                 ELSE Returned(SelectSeq(rows, LAMBDA r : r[value_key] > threshold.ret))
        ELSE IF Contains(value_condition, "<")
        THEN LET threshold == float(str_strip(str_replace(value_condition, <<"<">>)))
             IN  IF threshold.raised
                 THEN Raised
                 ELSE Returned(SelectSeq(rows, LAMBDA r : r[value_key] < threshold.ret))
        ELSE Returned(rows)

\* DataFrame.query("<key> <expr>") on a column of texts, inside try/except
\* pass: an expression that does not parse, and an ordering of a text with a
\* number, raise and leave the frame as it was; a text equals no number
query_text_column(rows, expr) ==
    LET q == ParseComparison(expr)
    IN  IF q.raised
        THEN rows
        ELSE IF q.op = <<"=", "=">> THEN <<>> ELSE rows

\* the loop over the remaining criteria, left after its first round
filter_by_criteria_first_only(rows, columns, criteria_items) ==
    IF criteria_items = <<>>
    THEN rows
    ELSE LET key == Head(criteria_items).key
             value == Head(criteria_items).value
         IN  IF key \notin columns
             THEN rows
             ELSE IF value.kind = "list"
             THEN SelectSeq(rows, LAMBDA r : r[key] \in value.items)
             ELSE IF HasOperator(value.text)
             THEN query_text_column(rows, value.text)
             ELSE SelectSeq(rows, LAMBDA r : r[key] = value.text)

\* the loop over the remaining criteria without its skip of unknown fields:
\* a criterion on a field that is not a column matches no row
RECURSIVE filter_by_criteria_no_skip(_, _, _)
filter_by_criteria_no_skip(rows, columns, criteria_items) ==
    IF criteria_items = <<>>
    THEN rows
    ELSE LET key == Head(criteria_items).key
             value == Head(criteria_items).value
             filtered ==
                IF key \notin columns
                THEN <<>>
                ELSE IF value.kind = "list"
                THEN SelectSeq(rows, LAMBDA r : r[key] \in value.items)
                ELSE IF HasOperator(value.text)
                THEN query_text_column(rows, value.text)
                ELSE SelectSeq(rows, LAMBDA r : r[key] = value.text)
         IN  filter_by_criteria_no_skip(filtered, columns, Tail(criteria_items))

\* the loop over the remaining criteria
RECURSIVE filter_by_criteria(_, _, _)
filter_by_criteria(rows, columns, criteria_items) ==
    IF criteria_items = <<>>
    THEN rows
    ELSE LET key == Head(criteria_items).key
             value == Head(criteria_items).value
             filtered ==
                IF key \notin columns
                THEN rows
                ELSE IF value.kind = "list"
                THEN SelectSeq(rows, LAMBDA r : r[key] \in value.items)
                ELSE IF HasOperator(value.text)
                THEN query_text_column(rows, value.text)
                ELSE SelectSeq(rows, LAMBDA r : r[key] = value.text)
         IN  filter_by_criteria(filtered, columns, Tail(criteria_items))

RECURSIVE SumColumn(_, _)
SumColumn(rows, value_key) ==
    IF rows = <<>> THEN 0 ELSE Head(rows)[value_key] + SumColumn(Tail(rows), value_key)

\* sum_values_by_criteria past its two early returns: coerce the value
\* column, apply VALUE_CONDITION, filter by the other criteria, sum
sum_coerced(transactions, value_key, criteria_items) ==
    LET rows == transactions.rows
        coerced == [i \in 1..Len(rows) |->
                      float(str_strip(str_replace(str_replace(rows[i][value_key],
                                                              <<"K", "c">>), <<",">>)))]
    IN  IF \E i \in 1..Len(rows) : coerced[i].raised
        THEN Raised
        ELSE
        LET filtered_df == [i \in 1..Len(rows) |->
                              [rows[i] EXCEPT ![value_key] = coerced[i].ret]]
            conditions == SelectSeq(criteria_items, LAMBDA c : c.key = "VALUE_CONDITION")
            remaining == SelectSeq(criteria_items, LAMBDA c : c.key # "VALUE_CONDITION")
            after == IF conditions # <<>>
                     THEN apply_value_condition(filtered_df, value_key,
                                                Head(conditions).value.text)
                     ELSE Returned(filtered_df)
        IN  IF after.raised
            THEN Raised
            ELSE Returned(SumColumn(filter_by_criteria(after.ret, transactions.columns,
                                                       remaining), value_key))

\* sum_values_by_criteria without the check that the value column exists:
\* indexing the missing column raises KeyError
sum_values_by_criteria_unchecked(transactions, value_key, criteria_items) ==
    IF DataFrameEmpty(transactions)
    THEN Returned(0)
    ELSE IF value_key \notin transactions.columns
    THEN Raised
    ELSE sum_coerced(transactions, value_key, criteria_items)

\* sum_values_by_criteria(transactions, value_key, **criteria); criteria_items
\* are the keyword arguments in order, each [key, value], a value being a list
\* of texts or a text
sum_values_by_criteria(transactions, value_key, criteria_items) ==
    IF DataFrameEmpty(transactions)
    THEN Returned(0)
    ELSE IF value_key \notin transactions.columns
    THEN Returned(0)
    ELSE sum_coerced(transactions, value_key, criteria_items)

----------------------------------------------------------------------------
(* The tables and criteria the aggregator is applied to *)

ValueTexts == {<<"-", "3">>, <<"1", ",", "0", "0", "0", " ", "K", "c">>, <<>>}

CategoryTexts == {<<"S">>, <<"F">>}

MonthTexts == {<<"J">>, <<"M">>}

ColumnSets == {{}, {"CATEGORY"}, {"VALUE", "CATEGORY"}, {"VALUE", "CATEGORY", "MONTH"}}

CellTexts(name) ==
    CASE name = "VALUE" -> ValueTexts
      [] name = "CATEGORY" -> CategoryTexts
      [] OTHER -> MonthTexts

RowsOver(columns) ==
    {r \in [columns -> ValueTexts \cup CategoryTexts \cup MonthTexts] :
        \A c \in columns : r[c] \in CellTexts(c)}

SeqsUpTo(S, n) == UNION {[1..k -> S] : k \in 0..n}

Tables ==
    UNION {{[columns |-> cs, rows |-> rs] : rs \in SeqsUpTo(RowsOver(cs), MaxRows)} :
              cs \in ColumnSets}

ValueKeys == {"VALUE", "AMOUNT"}

TextValue(text) == [kind |-> "str", text |-> text, items |-> {}]

ListValue(items) == [kind |-> "list", text |-> <<>>, items |-> items]

ConditionTexts ==
    {<<">", " ", "0">>, <<"<", " ", "0">>, <<"=", ">", " ", "0">>, <<">", " ", "x">>, <<"x">>}

Optional(S) == {<<>>} \cup {<<s>> : s \in S}

CriteriaChoices ==
    {a \o b \o c :
        a \in Optional({[key |-> "VALUE_CONDITION", value |-> TextValue(t)] :
                           t \in ConditionTexts}),
        b \in Optional({[key |-> "CATEGORY", value |-> v] :
                           v \in {ListValue({<<"S">>}), TextValue(<<"S">>),
                                  TextValue(<<">", " ", "1">>),
                                  TextValue(<<"x", ">", "y">>)}}),
        c \in Optional({[key |-> "MONTH", value |-> TextValue(<<"J">>)]})}

NotCalled == [called |-> FALSE, raised |-> FALSE, ret |-> 0]

NoArgs == [func |-> "none"]

----------------------------------------------------------------------------
(* The state machine *)

\* the dict update_settings saves: the loaded settings with the four inputs set
Saved(before, chosen) ==
    [k \in DOMAIN before \cup DOMAIN chosen |->
        IF k \in DOMAIN chosen THEN chosen[k] ELSE before[k]]

\* the settings files an earlier run may have left: none, or one of these
InitialSettings == {s \in SettingsChoices : ~s.prefetch_enabled /\ ~s.cache_enabled}

World == [now |-> now, file |-> settings_file, cache |-> cache, stats |-> cache_stats,
          log |-> <<>>]

NoSnapshot == [shared |-> FALSE, val |-> EmptyDict]

Lookups(W) == W.stats["hits"] + W.stats["misses"]

\* the module state a handler leaves, within the bounds of the model
Commit(W, o) ==
    /\ W.now <= MaxTime
    /\ Backoff(W.now) <= MaxBackoff
    /\ Lookups(W) <= MaxLookups
    /\ now' = W.now
    /\ settings_file' = W.file
    /\ cache' = W.cache
    /\ cache_stats' = W.stats
    /\ calls' = W.log
    /\ origin' = IF load_settings(W.file).settings["cache_enabled"]
                 THEN TrackOrigin(o, W.log, W.now)
                 ELSE o

Init ==
    /\ now = 0
    /\ settings_file \in {MissingFile} \cup {save_settings(Saved(default_settings, chosen)) :
                                              chosen \in InitialSettings}
    /\ cache = EmptyDict
    /\ cache_stats = InitialStats(0)
    /\ phase = "import"
    /\ handler = "import"
    /\ calls = <<>>
    /\ snapshot = NoSnapshot
    /\ origin = EmptyDict
    /\ table = [columns |-> {}, rows |-> <<>>]
    /\ column = "VALUE"
    /\ kwargs = <<>>
    /\ args = NoArgs
    /\ result = NotCalled
    /\ threads = NoThreads

\* main.py: load the settings, prefetch when enabled, then serve
Startup ==
    /\ phase = "import"
    /\ phase' = "replying"
    /\ handler' = "main"
    /\ \E tx_up \in TxUpstream, ws_up \in WsUpstream :
          LET l == load_settings(settings_file)
              W0 == [World EXCEPT !.file = l.file]
          IN  \E W \in {IF l.settings["prefetch_enabled"]
                        THEN prefetch_common_data(W0, tx_up, ws_up)
                        ELSE W0} :
                 Commit(W, origin)
    /\ snapshot' = NoSnapshot
    /\ UNCHANGED avars

\* a page callback fetching the transactions
GetTransactions ==
    /\ phase = "idle"
    /\ phase' = "replying"
    /\ handler' = "get_transactions_data"
    /\ \E tx_up \in TxUpstream :
          \E W \in {get_transactions(World, tx_up, SPREADSHEET_NAME, "transactions").w} :
             Commit(W, origin)
    /\ snapshot' = NoSnapshot
    /\ UNCHANGED avars

\* setup_page.test_connection, or a page callback fetching the categories
GetAllCategories ==
    /\ phase = "idle"
    /\ phase' = "replying"
    /\ handler' = "test_connection"
    /\ \E ws_up \in WsUpstream :
          \E W \in {cached(World, ws_up, SPREADSHEET_NAME).w} :
             Commit(W, origin)
    /\ snapshot' = NoSnapshot
    /\ UNCHANGED avars

\* setup_page.update_settings
UpdateSettings ==
    /\ phase = "idle"
    /\ phase' = "replying"
    /\ handler' = "update_settings"
    /\ \E chosen \in SettingsChoices :
          LET before == load_settings(settings_file).settings
              settings == Saved(before, chosen)
              W0 == [World EXCEPT !.file = save_settings(settings)]
              kept == IF /\ before["cache_enabled"]
                         /\ chosen.cache_enabled
                         /\ before["cache_duration"] = chosen.cache_duration
                      THEN origin
                      ELSE EmptyDict
          IN  \E W \in IF chosen.prefetch_enabled
                       THEN {prefetch_common_data(W0, tx_up, ws_up) :
                                tx_up \in TxUpstream, ws_up \in WsUpstream}
                       ELSE {W0} :
                 Commit(W, kept)
    /\ snapshot' = NoSnapshot
    /\ UNCHANGED avars

\* setup_page.clear_cache_handler
ClearCacheHandler ==
    /\ phase = "idle"
    /\ phase' = "replying"
    /\ handler' = "clear_cache_handler"
    /\ \E W \in {clear_cache(World)} :
          /\ cache' = W.cache
          /\ cache_stats' = W.stats
    /\ calls' = <<>>
    /\ origin' = EmptyDict
    /\ snapshot' = NoSnapshot
    /\ UNCHANGED <<now, settings_file>>
    /\ UNCHANGED avars

\* setup_page.update_cache_stats; `edits`: the caller then writes into the
\* mapping it was given
UpdateCacheStats ==
    /\ phase = "idle"
    /\ phase' = "replying"
    /\ handler' = "update_cache_stats"
    /\ \E edits \in BOOLEAN :
          \E r \in {get_cache_stats(World)} :
             LET val == IF edits THEN [r.ret EXCEPT !["hits"] = -1] ELSE r.ret
             IN  /\ snapshot' = [shared |-> r.shared, val |-> val]
                 /\ cache_stats' = IF r.shared THEN val ELSE r.w.stats
                 /\ cache' = r.w.cache
    /\ calls' = <<>>
    /\ UNCHANGED <<now, settings_file, origin>>
    /\ UNCHANGED avars

\* time passes between requests
Tick ==
    /\ phase = "idle"
    /\ now + TickStep <= MaxTime
    /\ now' = now + TickStep
    /\ UNCHANGED <<settings_file, cache, cache_stats, phase, handler, calls, snapshot, origin>>
    /\ UNCHANGED avars

\* the handler returns: its reply is sent and what it held is dropped
Respond ==
    /\ phase = "replying"
    /\ phase' = "idle"
    /\ handler' = "idle"
    /\ calls' = <<>>
    /\ snapshot' = NoSnapshot
    /\ UNCHANGED <<now, settings_file, cache, cache_stats, origin>>
    /\ UNCHANGED avars

Next ==
    \/ Startup
    \/ GetTransactions
    \/ GetAllCategories
    \/ UpdateSettings
    \/ ClearCacheHandler
    \/ UpdateCacheStats
    \/ Tick
    \/ Respond

Spec == Init /\ [][Next]_vars

----------------------------------------------------------------------------
(* The aggregator applied to a table and criteria, the cache left alone *)

InitAgg ==
    /\ now = 0
    /\ settings_file = MissingFile
    /\ cache = EmptyDict
    /\ cache_stats = InitialStats(0)
    /\ phase = "import"
    /\ handler = "import"
    /\ calls = <<>>
    /\ snapshot = NoSnapshot
    /\ origin = EmptyDict
    /\ table \in Tables
    /\ column \in ValueKeys
    /\ kwargs \in CriteriaChoices
    /\ args = NoArgs
    /\ result = NotCalled
    /\ threads = NoThreads

SumValuesByCriteria ==
    /\ ~result.called
    /\ \E r \in {sum_values_by_criteria(table, column, kwargs)} :
          result' = [called |-> TRUE, raised |-> r.raised, ret |-> r.ret]
    /\ UNCHANGED <<table, column, kwargs, args, threads>>
    /\ UNCHANGED cvars

NextAgg == SumValuesByCriteria

SpecAgg == InitAgg /\ [][NextAgg]_vars

\* the sum of f over the indices S
RECURSIVE SumOf(_, _)
SumOf(f, S) ==
    IF S = {}
    THEN 0
    ELSE LET i == CHOOSE j \in S : TRUE
         IN  f[i] + SumOf(f, S \ {i})

----------------------------------------------------------------------------
(* analysis.py: the operations built on the aggregator.  A category list   *)
(* is the set of its texts; month is a text, the empty text standing for   *)
(* None (both are false in `if month:`).                                   *)

CategoryCriterion(categories) == [key |-> "CATEGORY", value |-> ListValue(categories)]

MonthCriterion(month) == [key |-> "MONTH", value |-> TextValue(month)]

\* the keyword arguments both operations pass to sum_values_by_criteria
CriteriaFor(categories, month) ==
    IF month # <<>>
    THEN <<CategoryCriterion(categories), MonthCriterion(month)>>
    ELSE <<CategoryCriterion(categories)>>

Abs(x) == IF x < 0 THEN 0 - x ELSE x

\* compute_cashflow
compute_cashflow(transactions, income_categories, expense_categories, month) ==
    LET total_income == sum_values_by_criteria(transactions, "VALUE",
                                               CriteriaFor(income_categories, month))
        total_expenses == sum_values_by_criteria(transactions, "VALUE",
                                                 CriteriaFor(expense_categories, month))
    IN  IF total_income.raised \/ total_expenses.raised
        THEN Raised
        ELSE Returned(total_income.ret + total_expenses.ret)

Infinite == [inf |-> TRUE, num |-> 0, den |-> 1]

Ratio(n, d) == [inf |-> FALSE, num |-> n, den |-> d]

\* calculate_expense_ratio with the division done whatever the income; a
\* division by zero raises
calculate_expense_ratio_dividing(transactions, income_categories, expense_categories, month) ==
    LET total_income == sum_values_by_criteria(transactions, "VALUE",
                                               CriteriaFor(income_categories, month))
        total_expenses == sum_values_by_criteria(transactions, "VALUE",
                                                 CriteriaFor(expense_categories, month))
    IN  IF total_income.raised \/ total_expenses.raised
        THEN Raised
        ELSE IF total_income.ret = 0
        THEN Raised
        ELSE Returned(Ratio(Abs(total_expenses.ret), total_income.ret))

\* calculate_expense_ratio; the quotient is kept as numerator and denominator
calculate_expense_ratio(transactions, income_categories, expense_categories, month) ==
    LET total_income == sum_values_by_criteria(transactions, "VALUE",
                                               CriteriaFor(income_categories, month))
        total_expenses == sum_values_by_criteria(transactions, "VALUE",
                                                 CriteriaFor(expense_categories, month))
    IN  IF total_income.raised \/ total_expenses.raised
        THEN Raised
        ELSE IF total_income.ret = 0
        THEN Returned(Infinite)
        ELSE Returned(Ratio(Abs(total_expenses.ret), total_income.ret))

\* the key of the default mapping, 'No Expenses'
NoExpenses == <<"N", "o", " ", "E", "x", "p", "e", "n", "s", "e", "s">>

\* sum_expenses_by_category counting the rows of either sign
sum_expenses_by_category_signed(df, expense_cats, month) ==
    IF "VALUE" \notin df.columns
    THEN Raised
    ELSE
    LET coerced == [i \in 1..Len(df.rows) |->
                      float(str_strip(str_replace(str_replace(df.rows[i]["VALUE"],
                                                              <<"K", "c">>), <<",">>)))]
    IN  IF \E i \in 1..Len(df.rows) : coerced[i].raised
        THEN Raised
        ELSE IF month # <<>> /\ "MONTH" \notin df.columns
        THEN Raised
        ELSE IF "CATEGORY" \notin df.columns
        THEN Raised
        ELSE
        LET kept == {i \in 1..Len(df.rows) :
                        /\ month # <<>> => df.rows[i]["MONTH"] = month
                        /\ df.rows[i]["CATEGORY"] \in expense_cats}
            groups == {df.rows[i]["CATEGORY"] : i \in kept}
            expenses == [c \in groups |->
                           SumOf([i \in 1..Len(df.rows) |-> coerced[i].ret],
                                 {i \in kept : df.rows[i]["CATEGORY"] = c})]
            expenses_dict == [c \in {g \in groups : expenses[g] # 0} |-> expenses[c]]
        IN  IF DOMAIN expenses_dict # {}
            THEN Returned(expenses_dict)
            ELSE Returned([c \in {NoExpenses} |-> 0])

\* sum_expenses_by_category: coerce VALUE, keep the month, keep the rows of
\* the listed categories with a negative value, sum per category, take the
\* magnitudes, drop the zero totals, default mapping when nothing is left
sum_expenses_by_category(df, expense_cats, month) ==
    IF "VALUE" \notin df.columns
    THEN Raised
    ELSE
    LET coerced == [i \in 1..Len(df.rows) |->
                      float(str_strip(str_replace(str_replace(df.rows[i]["VALUE"],
                                                              <<"K", "c">>), <<",">>)))]
    IN  IF \E i \in 1..Len(df.rows) : coerced[i].raised
        THEN Raised
        ELSE IF month # <<>> /\ "MONTH" \notin df.columns
        THEN Raised
        ELSE IF "CATEGORY" \notin df.columns
        THEN Raised
        ELSE
        LET kept == {i \in 1..Len(df.rows) :
                        /\ month # <<>> => df.rows[i]["MONTH"] = month
                        /\ df.rows[i]["CATEGORY"] \in expense_cats
                        /\ coerced[i].ret < 0}
            groups == {df.rows[i]["CATEGORY"] : i \in kept}
            expenses == [c \in groups |->
                           Abs(SumOf([i \in 1..Len(df.rows) |-> coerced[i].ret],
                                     {i \in kept : df.rows[i]["CATEGORY"] = c}))]
            expenses_dict == [c \in {g \in groups : expenses[g] > 0} |-> expenses[c]]
        IN  IF DOMAIN expenses_dict # {}
            THEN Returned(expenses_dict)
            ELSE Returned([c \in {NoExpenses} |-> 0])

----------------------------------------------------------------------------
(* The derived operations applied to a table and category lists *)

DerivedArgs ==
    {[func |-> f, income_categories |-> ic, expense_categories |-> ec, month |-> m] :
        f \in {"compute_cashflow", "calculate_expense_ratio", "sum_expenses_by_category"},
        ic \in {{}, {<<"S">>}},
        ec \in {{}, {<<"F">>}},
        m \in {<<>>, <<"J">>}}

InitDerived ==
    /\ now = 0
    /\ settings_file = MissingFile
    /\ cache = EmptyDict
    /\ cache_stats = InitialStats(0)
    /\ phase = "import"
    /\ handler = "import"
    /\ calls = <<>>
    /\ snapshot = NoSnapshot
    /\ origin = EmptyDict
    /\ table \in Tables
    /\ column = "VALUE"
    /\ kwargs = <<>>
    /\ args \in DerivedArgs
    /\ result = NotCalled
    /\ threads = NoThreads

Apply(r) ==
    /\ result' = [called |-> TRUE, raised |-> r.raised, ret |-> r.ret]
    /\ UNCHANGED <<table, column, kwargs, args, threads>>
    /\ UNCHANGED cvars

ComputeCashflow ==
    /\ ~result.called
    /\ args.func = "compute_cashflow"
    /\ \E r \in {compute_cashflow(table, args.income_categories,
                                  args.expense_categories, args.month)} : Apply(r)

CalculateExpenseRatio ==
    /\ ~result.called
    /\ args.func = "calculate_expense_ratio"
    /\ \E r \in {calculate_expense_ratio(table, args.income_categories,
                                         args.expense_categories, args.month)} : Apply(r)

SumExpensesByCategory ==
    /\ ~result.called
    /\ args.func = "sum_expenses_by_category"
    /\ \E r \in {sum_expenses_by_category(table, args.expense_categories, args.month)} :
          Apply(r)

NextDerived ==
    \/ ComputeCashflow
    \/ CalculateExpenseRatio
    \/ SumExpensesByCategory

SpecDerived == InitDerived /\ [][NextDerived]_vars

----------------------------------------------------------------------------
(* get_categories.py: the classification of the definitions sheet.  The    *)
(* definitions are [columns, rows], a row [type, description] as           *)
(* get_worksheet builds it from the sheet's headers and cells.             *)

\* definitions_df[definitions_df['Category Type'] == t]['Category Description'].tolist()
DescriptionsOfType(definitions, t) ==
    LET chosen == SelectSeq(definitions.rows, LAMBDA r : r.type = t)
    IN  [i \in 1..Len(chosen) |-> chosen[i].description]

\* the classification with the expense list taking every row that is not
\* an income row
classify_definitions_rest_is_expense(definitions) ==
    IF \E c \in {"Category Type", "Category Description"} : c \notin definitions.columns
    THEN Raised
    ELSE Returned([income_categories |-> DescriptionsOfType(definitions, "income"),
                   expense_categories |->
                      LET chosen == SelectSeq(definitions.rows, LAMBDA r : r.type # "income")
                      IN  [i \in 1..Len(chosen) |-> chosen[i].description],
                   saving_categories |-> DescriptionsOfType(definitions, "saving"),
                   investing_categories |-> DescriptionsOfType(definitions, "investment")])

\* get_all_categories_api past the fetch of the definitions: validate the
\* columns, then one list per type
classify_definitions(definitions) ==
    IF \E c \in {"Category Type", "Category Description"} : c \notin definitions.columns
    THEN Raised
    ELSE Returned([income_categories |-> DescriptionsOfType(definitions, "income"),
                   expense_categories |-> DescriptionsOfType(definitions, "expense"),
                   saving_categories |-> DescriptionsOfType(definitions, "saving"),
                   investing_categories |-> DescriptionsOfType(definitions, "investment")])

CategoryTypes == {"income", "expense", "saving", "investment", "other"}

CategoryDescriptions == {"A", "B"}

DefinitionSheets ==
    {[columns |-> cs, rows |-> rs] :
        cs \in {{"Category Type", "Category Description"}, {"Category Type"}, {}},
        rs \in SeqsUpTo([type : CategoryTypes, description : CategoryDescriptions], MaxRows)}

InitCategories ==
    /\ now = 0
    /\ settings_file = MissingFile
    /\ cache = EmptyDict
    /\ cache_stats = InitialStats(0)
    /\ phase = "import"
    /\ handler = "import"
    /\ calls = <<>>
    /\ snapshot = NoSnapshot
    /\ origin = EmptyDict
    /\ table \in DefinitionSheets
    /\ column = "VALUE"
    /\ kwargs = <<>>
    /\ args = [func |-> "get_all_categories_api"]
    /\ result = NotCalled
    /\ threads = NoThreads

ClassifyDefinitions ==
    /\ ~result.called
    /\ args.func = "get_all_categories_api"
    /\ \E r \in {classify_definitions(table)} : Apply(r)

NextCategories == ClassifyDefinitions

SpecCategories == InitCategories /\ [][NextCategories]_vars

----------------------------------------------------------------------------
(* analysis.py: top_5_highest_transactions.  The returned frame is the     *)
(* sequence of the index labels (row numbers of the table) it holds, in    *)
(* the frame's order.                                                      *)

Range(q) == {q[i] : i \in 1..Len(q)}

TopN == 5

MaxTopRows == 6

\* transactions[transactions['CATEGORY'] == category]: the labels kept, in
\* the table's order
RowsOfCategory(transactions, category) ==
    SelectSeq([i \in 1..Len(transactions.rows) |-> i],
              LAMBDA i : transactions.rows[i]["CATEGORY"] = category)

\* .str.replace('Kc', '').str.replace(',', '').str.strip().astype(float) of
\* one cell
value_numeric(text) ==
    float(str_strip(str_replace(str_replace(text, <<"K", "c">>), <<",">>)))

\* DataFrame.nlargest(n, column) with keep='first': the n labels of the
\* largest values, in descending order, equal values in the frame's order
nlargest(n, labels, value) ==
    LET before(i, j) == \/ value[labels[i]] > value[labels[j]]
                        \/ value[labels[i]] = value[labels[j]] /\ i < j
        rank(j) == Cardinality({i \in 1..Len(labels) : before(i, j)})
        size == IF Len(labels) < n THEN Len(labels) ELSE n
    IN  [k \in 1..size |-> labels[CHOOSE j \in 1..Len(labels) : rank(j) = k - 1]]

\* top_5_highest_transactions that takes the first five rows of the
\* category instead of the five largest
top_5_highest_transactions_head(transactions, category) ==
    IF "CATEGORY" \notin transactions.columns \/ "VALUE" \notin transactions.columns
    THEN Raised
    ELSE LET filtered_df == RowsOfCategory(transactions, category)
             cells == [i \in Range(filtered_df) |->
                          value_numeric(transactions.rows[i]["VALUE"])]
         IN  IF \E i \in Range(filtered_df) : cells[i].raised
             THEN Raised
             ELSE Returned(SubSeq(filtered_df, 1,
                                  IF Len(filtered_df) < TopN THEN Len(filtered_df)
                                  ELSE TopN))

top_5_highest_transactions(transactions, category) ==
    IF "CATEGORY" \notin transactions.columns \/ "VALUE" \notin transactions.columns
    THEN Raised
    ELSE LET filtered_df == RowsOfCategory(transactions, category)
             cells == [i \in Range(filtered_df) |->
                          value_numeric(transactions.rows[i]["VALUE"])]
         IN  IF \E i \in Range(filtered_df) : cells[i].raised
             THEN Raised
             ELSE Returned(nlargest(TopN, filtered_df,
                                    [i \in Range(filtered_df) |-> cells[i].ret]))

TopColumnSets == {{}, {"CATEGORY"}, {"VALUE", "CATEGORY"}}

InitTop ==
    /\ now = 0
    /\ settings_file = MissingFile
    /\ cache = EmptyDict
    /\ cache_stats = InitialStats(0)
    /\ phase = "import"
    /\ handler = "import"
    /\ calls = <<>>
    /\ snapshot = NoSnapshot
    /\ origin = EmptyDict
    /\ \E cs \in TopColumnSets, k \in 0..MaxTopRows :
          \E rs \in [1..k -> RowsOver(cs)] : table = [columns |-> cs, rows |-> rs]
    /\ column = "VALUE"
    /\ kwargs = <<>>
    /\ args \in {[func |-> "top_5_highest_transactions", category |-> c] :
                    c \in CategoryTexts}
    /\ result = NotCalled
    /\ threads = NoThreads

Top5HighestTransactions ==
    /\ ~result.called
    /\ args.func = "top_5_highest_transactions"
    /\ \E r \in {top_5_highest_transactions(table, args.category)} : Apply(r)

NextTop == Top5HighestTransactions

SpecTop == InitTop /\ [][NextTop]_vars

----------------------------------------------------------------------------
(* data_fetch.py: load_settings on the stores a run can find on disk *)

\* the options the setup page shows, with the default each has where it is
\* read
RecognizedDefaults ==
    [cache_enabled |-> TRUE, cache_duration |-> DEFAULT_CACHE_DURATION,
     prefetch_enabled |-> TRUE, use_fundamental_expenses |-> TRUE]

\* the objects a store can hold: any of the options, each with one of its
\* values
StoredDicts ==
    {[k \in ks |-> full[k]] :
        full \in [cache_enabled : BOOLEAN, cache_duration : {30, DEFAULT_CACHE_DURATION},
                  prefetch_enabled : BOOLEAN, use_fundamental_expenses : BOOLEAN,
                  debug_mode : {FALSE}],
        ks \in SUBSET (DOMAIN RecognizedDefaults \cup {"debug_mode"})}

Stores == {MissingFile, CorruptFile, NotObjectFile} \cup {save_settings(d) : d \in StoredDicts}

InitSettings ==
    /\ now = 0
    /\ settings_file \in Stores
    /\ cache = EmptyDict
    /\ cache_stats = InitialStats(0)
    /\ phase = "import"
    /\ handler = "import"
    /\ calls = <<>>
    /\ snapshot = NoSnapshot
    /\ origin = EmptyDict
    /\ table = [columns |-> {}, rows |-> <<>>]
    /\ column = "VALUE"
    /\ kwargs = <<>>
    /\ args = [func |-> "load_settings", store |-> settings_file, loads |-> 0]
    /\ result = NotCalled
    /\ threads = NoThreads

\* one call of load_settings; a second call follows the first
LoadSettings ==
    /\ args.func = "load_settings"
    /\ args.loads < 2
    /\ ~result.raised
    /\ \E l \in {load_settings(settings_file)} :
          /\ settings_file' = l.file
          /\ result' = [called |-> TRUE, raised |-> l.raised,
                        ret |-> IF l.raised THEN 0 ELSE l.settings]
    /\ args' = [args EXCEPT !.loads = @ + 1]
    /\ UNCHANGED <<now, cache, cache_stats, phase, handler, calls, snapshot, origin>>
    /\ UNCHANGED <<table, column, kwargs, threads>>

NextSettings == LoadSettings

SpecSettings == InitSettings /\ [][NextSettings]_vars

----------------------------------------------------------------------------
(* data_fetch.py: save_settings and load_settings when the server runs     *)
(* requests in threads (app.run_server, threaded).  The file is            *)
(* [state, dict, size], size the length of its text.  open(..., 'w')       *)
(* empties the file; the text is written from offset 0 when the file is    *)
(* closed; json.load reads the whole text in one read.                     *)

MaxLoaders == 2

\* the length of a value as json.dump writes it: true, false, 30, 300
JsonValueLen(k, v) ==
    IF k = "cache_duration"
    THEN IF v < 100 THEN 2 ELSE 3
    ELSE IF v THEN 4 ELSE 5

\* the length of a key
KeyLen(k) ==
    CASE k = "cache_enabled" -> 13
      [] k = "cache_duration" -> 14
      [] k = "prefetch_enabled" -> 16
      [] k = "debug_mode" -> 10
      [] OTHER -> 24

\* len of json.dumps(d, indent=4): "{" newline, per entry four blanks, the
\* quoted key, ": ", the value, entries joined by "," newline, newline "}"
JsonLen(d) ==
    IF DOMAIN d = {}
    THEN 2
    ELSE 2 + SumOf([k \in DOMAIN d |-> 4 + KeyLen(k) + 2 + 2 + JsonValueLen(k, d[k])], DOMAIN d)
           + 2 * (Cardinality(DOMAIN d) - 1) + 2

OnDisk(d) == [state |-> "ok", dict |-> d, size |-> JsonLen(d)]

\* open('src/settings.json', 'w')
Truncated == [state |-> "corrupt", dict |-> EmptyDict, size |-> 0]

\* json.dump and close, through a descriptor opened earlier: the text goes
\* to offset 0; what another thread wrote beyond its end stays
Written(file, d) ==
    IF JsonLen(d) >= file.size
    THEN OnDisk(d)
    ELSE [state |-> "corrupt", dict |-> EmptyDict, size |-> file.size]

Loaders == {"loader" \o ToString(i) : i \in 1..MaxLoaders}

\* update_settings with prefetching switched off, so that the handler ends
\* with its save
SaverChoices == {c \in SettingsChoices : ~c.prefetch_enabled}

Thread(kind, pc, chosen, settings, observed) ==
    [kind |-> kind, pc |-> pc, chosen |-> chosen, settings |-> settings,
     observed |-> observed]

InitSave ==
    /\ now = 0
    /\ settings_file \in {OnDisk(Saved(default_settings, c)) : c \in SettingsChoices}
    /\ cache = EmptyDict
    /\ cache_stats = InitialStats(0)
    /\ phase = "import"
    /\ handler = "import"
    /\ calls = <<>>
    /\ snapshot = NoSnapshot
    /\ origin = EmptyDict
    /\ table = [columns |-> {}, rows |-> <<>>]
    /\ column = "VALUE"
    /\ kwargs = <<>>
    /\ args = [func |-> "save_settings", store |-> settings_file]
    /\ result = NotCalled
    /\ \E c \in SaverChoices :
          threads = [t \in {"saver"} \cup Loaders |->
                       IF t = "saver"
                       THEN Thread("update_settings", "load", c, EmptyDict, <<>>)
                       ELSE Thread("load_settings", "load", c, EmptyDict, <<>>)]

\* where a thread goes when its load_settings has returned `settings`
AfterLoad(th, settings) ==
    IF th.kind = "update_settings"
    THEN [th EXCEPT !.pc = "save_open", !.settings = Saved(settings, th.chosen)]
    ELSE [th EXCEPT !.pc = "done", !.settings = settings]

SaveFrame ==
    UNCHANGED <<now, cache, cache_stats, phase, handler, calls, snapshot, origin,
                table, column, kwargs, args, result>>

\* load_settings, lines 61-67: open, json.load, fill in the defaults
ReadSettings(t) ==
    /\ threads[t].pc = "load"
    /\ LET th == [threads[t] EXCEPT !.observed = Append(@, settings_file)]
       IN  threads' = [threads EXCEPT ![t] =
                          IF settings_file.state = "ok"
                          THEN AfterLoad(th, load_settings(settings_file).settings)
                          ELSE [th EXCEPT !.pc = "default_open"]]
    /\ UNCHANGED settings_file
    /\ SaveFrame

\* load_settings, lines 68-76, save_settings(default_settings): the open
OpenForDefaults(t) ==
    /\ threads[t].pc = "default_open"
    /\ settings_file' = Truncated
    /\ threads' = [threads EXCEPT ![t].pc = "default_write"]
    /\ SaveFrame

\* ... its json.dump and close, and the return of the defaults
WriteDefaults(t) ==
    /\ threads[t].pc = "default_write"
    /\ settings_file' = Written(settings_file, default_settings)
    /\ threads' = [threads EXCEPT ![t] = AfterLoad(threads[t], default_settings)]
    /\ SaveFrame

\* save_settings, line 89: open(..., 'w')
OpenForSave(t) ==
    /\ threads[t].pc = "save_open"
    /\ settings_file' = Truncated
    /\ threads' = [threads EXCEPT ![t].pc = "save_write"]
    /\ SaveFrame

\* save_settings, line 90 and the end of the with block
WriteSettings(t) ==
    /\ threads[t].pc = "save_write"
    /\ settings_file' = Written(settings_file, threads[t].settings)
    /\ threads' = [threads EXCEPT ![t].pc = "done"]
    /\ SaveFrame

NextSave ==
    \E t \in {"saver"} \cup Loaders :
       \/ ReadSettings(t)
       \/ OpenForDefaults(t)
       \/ WriteDefaults(t)
       \/ OpenForSave(t)
       \/ WriteSettings(t)

SpecSave == InitSave /\ [][NextSave]_vars

----------------------------------------------------------------------------
(* analysis.py and data_fetch.py: which objects a call writes to.  A heap  *)
(* is the sequence of the frames that exist, a frame is named by its       *)
(* position; a cell that astype(float) produced is the text of the number  *)
(* behind the mark "float".                                                *)

\* get_transactions, lines 314-318, on one VALUE cell ("A" stands for the
\* second character of the literal in line 318, which is not the caron c)
clean_value(text) ==
    LET value == IF str_strip(text) = <<>> THEN <<"0">> ELSE str_strip(text)
    IN  str_replace(str_replace(str_replace(value, <<"K", "A">>), <<",">>), <<" ">>)

\* DataFrame.copy(), pd.DataFrame(records): a new frame with the same cells
frame_copy(heap, id) == [heap |-> Append(heap, heap[id]), id |-> Len(heap) + 1]

\* frame[frame[name] == value]: a new frame with the rows chosen
frame_select(heap, id, name, value) ==
    [heap |-> Append(heap, [heap[id] EXCEPT
                               !.rows = SelectSeq(@, LAMBDA r : r[name] = value)]),
     id |-> Len(heap) + 1]

FloatCell(text) ==
    <<"float">> \o str_strip(str_replace(str_replace(text, <<"K", "c">>), <<",">>))

Coercible(frame, source) ==
    \A i \in 1..Len(frame.rows) : ~value_numeric(frame.rows[i][source]).raised

\* frame[target] = frame[source].str.replace(...)...astype(float): the
\* column is set in the frame itself
set_numeric(heap, id, source, target) ==
    [heap EXCEPT ![id] =
        [columns |-> @.columns \cup {target},
         rows |-> [i \in 1..Len(@.rows) |->
                      [c \in @.columns \cup {target} |->
                          IF c = target THEN FloatCell(@.rows[i][source])
                          ELSE @.rows[i][c]]]]]

\* sum_values_by_criteria working on the frame it was given
sum_values_by_criteria_in_place(heap, id, value_key) ==
    IF DataFrameEmpty(heap[id]) \/ value_key \notin heap[id].columns
          \/ ~Coercible(heap[id], value_key)
    THEN heap
    ELSE set_numeric(heap, id, value_key, value_key)

\* the heap sum_values_by_criteria leaves: lines 25-40; the frames made by
\* the filters after line 40 are not written to
sum_values_by_criteria_frames(heap, id, value_key) ==
    IF DataFrameEmpty(heap[id])
    THEN heap
    ELSE LET filtered_df == frame_copy(heap, id)
         IN  IF value_key \notin heap[id].columns \/ ~Coercible(heap[id], value_key)
             THEN filtered_df.heap
             ELSE set_numeric(filtered_df.heap, filtered_df.id, value_key, value_key)

\* top_5_highest_transactions, lines 86-93
top_5_highest_transactions_frames(heap, id, category) ==
    IF "CATEGORY" \notin heap[id].columns
    THEN heap
    ELSE LET chosen == frame_select(heap, id, "CATEGORY", category)
             filtered_df == frame_copy(chosen.heap, chosen.id)
         IN  IF "VALUE" \notin heap[id].columns
                   \/ ~Coercible(filtered_df.heap[filtered_df.id], "VALUE")
             THEN filtered_df.heap
             ELSE set_numeric(filtered_df.heap, filtered_df.id, "VALUE", "VALUE_NUMERIC")

\* sum_expenses_by_category, lines 116-123
sum_expenses_by_category_frames(heap, id) ==
    LET df == frame_copy(heap, id)
    IN  IF "VALUE" \notin heap[id].columns \/ ~Coercible(heap[id], "VALUE")
        THEN df.heap
        ELSE set_numeric(df.heap, df.id, "VALUE", "VALUE_NUMERIC")

\* compute_cashflow and calculate_expense_ratio: two calls of
\* sum_values_by_criteria on the same frame
two_sums_frames(heap, id) ==
    sum_values_by_criteria_frames(sum_values_by_criteria_frames(heap, id, "VALUE"), id, "VALUE")

\* the lists get_transactions can have stored: none of its records, or
\* records with the fields it sets and a cleaned VALUE
StoredTransactions ==
    {[columns |-> {}, rows |-> <<>>]}
       \cup {[columns |-> {"VALUE", "CATEGORY", "MONTH"}, rows |-> rs] :
               rs \in UNION {[1..k -> RowsOver({"VALUE", "CATEGORY", "MONTH"})] :
                                k \in 1..MaxRows}}

CleanedRows(rows) ==
    [i \in 1..Len(rows) |-> [rows[i] EXCEPT !["VALUE"] = clean_value(@)]]

FrameArgs ==
    {[func |-> f, category |-> c] :
        f \in {"sum_values_by_criteria", "top_5_highest_transactions",
               "sum_expenses_by_category", "compute_cashflow", "calculate_expense_ratio"},
        c \in {<<"S">>}}

InitFrames ==
    /\ now = 0
    /\ settings_file = save_settings(default_settings)
    /\ \E stored \in StoredTransactions :
          /\ table = [stored EXCEPT !.rows = CleanedRows(@)]
          /\ cache = SetKey(EmptyDict, _get_cache_key(SPREADSHEET_NAME, "transactions", ""),
                            [timestamp |-> 0, data |-> table])
    /\ cache_stats = [InitialStats(0) EXCEPT !["size"] = 1, !["misses"] = 1]
    /\ phase = "idle"
    /\ handler = "idle"
    /\ calls = <<>>
    /\ snapshot = NoSnapshot
    /\ origin = EmptyDict
    /\ column = "VALUE"
    /\ kwargs = <<>>
    /\ \E a \in FrameArgs : args = [func |-> a.func, category |-> a.category, given |-> table]
    /\ result = NotCalled
    /\ threads = NoThreads

\* a page callback: df = pd.DataFrame(get_transactions(...)) served from the
\* cache, then one aggregation on df.  Frame 1 is the cached list, frame 2
\* is df; `heap` is the heap the aggregation leaves.
Aggregate(func) ==
    /\ ~result.called
    /\ LET cache_key == _get_cache_key(SPREADSHEET_NAME, "transactions", "")
           looked == _get_cached_data(World, cache_key)
           df == frame_copy(<<looked.ret>>, 1)
           heap == CASE func = "sum_values_by_criteria"
                          -> sum_values_by_criteria_frames(df.heap, df.id, column)
                     [] func = "top_5_highest_transactions"
                          -> top_5_highest_transactions_frames(df.heap, df.id, args.category)
                     [] func = "sum_expenses_by_category"
                          -> sum_expenses_by_category_frames(df.heap, df.id)
                     [] OTHER -> two_sums_frames(df.heap, df.id)
       IN  /\ looked.ret # None
           /\ cache' = [looked.w.cache EXCEPT ![cache_key].data = heap[1]]
           /\ cache_stats' = looked.w.stats
           /\ settings_file' = looked.w.file
           /\ table' = heap[df.id]
           /\ result' = [called |-> TRUE, raised |-> FALSE, ret |-> looked.ret]
    /\ UNCHANGED <<now, phase, handler, calls, snapshot, origin, column, kwargs, args, threads>>

SumValuesFrames ==
    /\ args.func = "sum_values_by_criteria"
    /\ Aggregate("sum_values_by_criteria")

Top5Frames ==
    /\ args.func = "top_5_highest_transactions"
    /\ Aggregate("top_5_highest_transactions")

SumExpensesFrames ==
    /\ args.func = "sum_expenses_by_category"
    /\ Aggregate("sum_expenses_by_category")

CashflowFrames ==
    /\ args.func = "compute_cashflow"
    /\ Aggregate("compute_cashflow")

ExpenseRatioFrames ==
    /\ args.func = "calculate_expense_ratio"
    /\ Aggregate("calculate_expense_ratio")

NextFrames ==
    \/ SumValuesFrames
    \/ Top5Frames
    \/ SumExpensesFrames
    \/ CashflowFrames
    \/ ExpenseRatioFrames

SpecFrames == InitFrames /\ [][NextFrames]_vars

----------------------------------------------------------------------------
(* data_fetch.py: two requests in a row, for the keys they are cached under *)

SpreadsheetNames == {"B", "B:t", "get_all_categories_api"}

WorksheetNames == {"x", "t:x"}

Request(kind, spreadsheet_name, worksheet_name, row_start, column_start, num_columns) ==
    [kind |-> kind, spreadsheet_name |-> spreadsheet_name, worksheet_name |-> worksheet_name,
     row_start |-> row_start, column_start |-> column_start, num_columns |-> num_columns]

\* get_transactions(s, w), get_worksheet(s, w, row_start, column_start,
\* num_columns) and get_all_categories_api(s)
Requests ==
    {Request("transactions", s, w, 0, 0, 0) : s \in SpreadsheetNames, w \in WorksheetNames}
       \cup {Request("range", s, w, r, 4, n) :
                s \in SpreadsheetNames, w \in WorksheetNames, r \in {1, 3}, n \in {3}}
       \cup {Request("categories", s, "", 0, 0, 0) : s \in SpreadsheetNames \cup {"x:"}}

\* the key a request is looked up and stored under
KeyOf(r) ==
    CASE r.kind = "transactions" ->
            _get_cache_key(r.spreadsheet_name, r.worksheet_name, "")
      [] r.kind = "range" ->
            _get_cache_key(r.spreadsheet_name, r.worksheet_name,
                           ParamStr(r.row_start, r.column_start, r.num_columns))
      [] OTHER -> CachedKey("get_all_categories_api", r.spreadsheet_name)

\* the call, with an upstream that answers
Serve(W, r) ==
    CASE r.kind = "transactions" ->
            get_transactions(W, [fails |-> 0, content |-> "A"],
                             r.spreadsheet_name, r.worksheet_name)
      [] r.kind = "range" ->
            get_worksheet(W, [fail |-> FALSE, content |-> "A"],
                          r.spreadsheet_name, r.worksheet_name,
                          r.row_start, r.column_start, r.num_columns)
      [] OTHER -> cached(W, [fail |-> FALSE, content |-> "A"], r.spreadsheet_name)

InitKeys ==
    /\ now = 0
    /\ settings_file = save_settings(default_settings)
    /\ cache = EmptyDict
    /\ cache_stats = InitialStats(0)
    /\ phase = "idle"
    /\ handler = "idle"
    /\ calls = <<>>
    /\ snapshot = NoSnapshot
    /\ origin = EmptyDict
    /\ table = [columns |-> {}, rows |-> <<>>]
    /\ column = "VALUE"
    /\ kwargs = <<>>
    /\ \E r1 \in Requests, r2 \in Requests :
          args = [func |-> "requests", requests |-> <<r1, r2>>, served |-> 0]
    /\ result = NotCalled
    /\ threads = NoThreads

\* the next of the two requests is served; `calls` keeps what both did
ServeRequest ==
    /\ args.func = "requests"
    /\ args.served < Len(args.requests)
    /\ \E r \in {Serve([World EXCEPT !.log = calls], args.requests[args.served + 1])} :
          /\ cache' = r.w.cache
          /\ cache_stats' = r.w.stats
          /\ settings_file' = r.w.file
          /\ calls' = r.w.log
          /\ result' = [called |-> TRUE, raised |-> r.raised, ret |-> r.ret]
    /\ args' = [args EXCEPT !.served = @ + 1]
    /\ UNCHANGED <<now, phase, handler, snapshot, origin, table, column, kwargs, threads>>

NextKeys == ServeRequest

SpecKeys == InitKeys /\ [][NextKeys]_vars

----------------------------------------------------------------------------
(* Requests served concurrently (main.py runs the threaded development     *)
(* server): each thread is one call of get_transactions, get_worksheet or  *)
(* clear_cache, and a step is one statement of the cache code acting on    *)
(* the shared _cache and _cache_stats.  The upstream answers every fetch.  *)

MaxRequests == 2

Requesters == {"request" \o ToString(i) : i \in 1..MaxRequests}

CallKinds == {"get_transactions", "get_worksheet", "clear_cache"}

\* the cache key of a call: the callers of the pages pass these arguments
CallKey(kind) ==
    IF kind = "get_transactions"
    THEN _get_cache_key(SPREADSHEET_NAME, "transactions", "")
    ELSE _get_cache_key(SPREADSHEET_NAME, "definitions", ParamStr(3, 4, 3))

\* what the upstream holds for a call
CallPayload(kind, t) ==
    IF kind = "get_transactions"
    THEN Payload("transactions", "A", t)
    ELSE Payload("dataset", "A", t)

\* `cached`: the local variable of _get_cached_data
Caller(kind, pc, entry, raised, ret) ==
    [kind |-> kind, pc |-> pc, cached |-> entry, raised |-> raised, ret |-> ret]

NoEntry == [timestamp |-> 0, data |-> None]

\* the maps earlier requests may have left: entries stored at time 0
StoredMaps ==
    {[k \in ks |-> [timestamp |-> 0,
                    data |-> IF k = CallKey("get_transactions")
                             THEN CallPayload("get_transactions", 0)
                             ELSE CallPayload("get_worksheet", 0)]] :
        ks \in SUBSET {CallKey("get_transactions"), CallKey("get_worksheet")}}

InitThreads ==
    /\ now \in {0, MaxTime}
    /\ settings_file \in {save_settings(Saved(default_settings, c)) :
                             c \in {x \in SettingsChoices : ~x.prefetch_enabled}}
    /\ cache \in StoredMaps
    /\ cache_stats = [InitialStats(0) EXCEPT !["size"] = Cardinality(DOMAIN cache),
                                             !["misses"] = Cardinality(DOMAIN cache)]
    /\ phase = "import"
    /\ handler = "import"
    /\ calls = <<>>
    /\ snapshot = NoSnapshot
    /\ origin = EmptyDict
    /\ table = [columns |-> {}, rows |-> <<>>]
    /\ column = "VALUE"
    /\ kwargs = <<>>
    /\ args = [func |-> "requests_interleaved"]
    /\ result = NotCalled
    /\ \E kinds \in [Requesters -> CallKinds] :
          threads = [t \in Requesters |->
                       Caller(kinds[t],
                              IF kinds[t] = "clear_cache" THEN "clear" ELSE "lookup",
                              NoEntry, FALSE, None)]

ThreadFrame ==
    UNCHANGED <<now, settings_file, phase, handler, calls, snapshot, origin,
                table, column, kwargs, args, result>>

\* _get_cached_data, lines 164-171: the toggle, and cached = _cache.get(cache_key)
LookupEntry(t) ==
    /\ threads[t].pc = "lookup"
    /\ LET key == CallKey(threads[t].kind)
       IN  IF get_cache_enabled(settings_file).value /\ key \in DOMAIN cache
           THEN /\ threads' = [threads EXCEPT ![t].pc = "check", ![t].cached = cache[key]]
                /\ UNCHANGED cache_stats
           ELSE /\ threads' = [threads EXCEPT ![t].pc = "fetch"]
                /\ cache_stats' = [cache_stats EXCEPT !["misses"] = @ + 1]
    /\ UNCHANGED cache
    /\ ThreadFrame

\* lines 173-176 and 183-186: the expiry test on the entry that was read,
\* and the hit
CheckExpiry(t) ==
    /\ threads[t].pc = "check"
    /\ IF now - threads[t].cached.timestamp > get_cache_duration(settings_file).value
       THEN /\ threads' = [threads EXCEPT ![t].pc = "delete"]
            /\ UNCHANGED cache_stats
       ELSE /\ threads' = [threads EXCEPT ![t].pc = "done",
                                          ![t].ret = threads[t].cached.data]
            /\ cache_stats' = [cache_stats EXCEPT !["hits"] = @ + 1,
                                                  !["saved_api_calls"] = @ + 1]
    /\ UNCHANGED cache
    /\ ThreadFrame

\* line 178: del _cache[cache_key], a KeyError when the key is not in the
\* map; the lookup of get_transactions (285) and of get_worksheet (363) is
\* outside the try block, so the error leaves the call
DeleteExpired(t) ==
    /\ threads[t].pc = "delete"
    /\ LET key == CallKey(threads[t].kind)
       IN  IF key \in DOMAIN cache
           THEN /\ cache' = RemoveKey(cache, key)
                /\ threads' = [threads EXCEPT ![t].pc = "resize"]
           ELSE /\ cache' = cache
                /\ threads' = [threads EXCEPT ![t].pc = "done", ![t].raised = TRUE]
    /\ UNCHANGED cache_stats
    /\ ThreadFrame

\* lines 179-181
Resize(t) ==
    /\ threads[t].pc = "resize"
    /\ cache_stats' = [cache_stats EXCEPT !["size"] = Cardinality(DOMAIN cache),
                                          !["misses"] = @ + 1]
    /\ threads' = [threads EXCEPT ![t].pc = "fetch"]
    /\ UNCHANGED cache
    /\ ThreadFrame

\* the fetch, _set_cached_data and the return of the fetched payload
FetchAndStore(t) ==
    /\ threads[t].pc = "fetch"
    /\ LET data == CallPayload(threads[t].kind, now)
           W == _set_cached_data(World, CallKey(threads[t].kind), data)
       IN  /\ cache' = W.cache
           /\ cache_stats' = W.stats
           /\ threads' = [threads EXCEPT ![t].pc = "done", ![t].ret = data]
    /\ ThreadFrame

\* clear_cache, line 136: _cache.clear()
ClearMap(t) ==
    /\ threads[t].pc = "clear"
    /\ cache' = EmptyDict
    /\ threads' = [threads EXCEPT ![t].pc = "reset"]
    /\ UNCHANGED cache_stats
    /\ ThreadFrame

\* clear_cache, lines 137-138
ResetSize(t) ==
    /\ threads[t].pc = "reset"
    /\ cache_stats' = [cache_stats EXCEPT !["last_cleared"] = now, !["size"] = 0]
    /\ threads' = [threads EXCEPT ![t].pc = "done"]
    /\ UNCHANGED cache
    /\ ThreadFrame

NextThreads ==
    \E t \in Requesters :
       \/ LookupEntry(t)
       \/ CheckExpiry(t)
       \/ DeleteExpired(t)
       \/ Resize(t)
       \/ FetchAndStore(t)
       \/ ClearMap(t)
       \/ ResetSize(t)

SpecThreads == InitThreads /\ [][NextThreads]_vars

----------------------------------------------------------------------------
(* Vocabulary of the claims *)

\* the settings a load of the store yields
Eff(file) == load_settings(file).settings

TxKey == _get_cache_key(SPREADSHEET_NAME, "transactions", "")

DefsKey == _get_cache_key(SPREADSHEET_NAME, "definitions", ParamStr(3, 4, 3))

CatKey == CachedKey("get_all_categories_api", SPREADSHEET_NAME)

Events(log) == {log[i] : i \in 1..Len(log)}

RECURSIVE SumSeq(_)
SumSeq(q) == IF q = <<>> THEN 0 ELSE Head(q) + SumSeq(Tail(q))

----------------------------------------------------------------------------
(* C1: with caching enabled, the duration D unchanged and no clear_cache   *)
(* since a get_transactions call fetched and stored at t0, every further   *)
(* get_transactions call at t <= t0 + D returns the stored payload without *)
(* asking the upstream, and a call at t > t0 + D asks the upstream again.  *)
C1_ServedWithinDuration ==
    [][LET D == Eff(settings_file')["cache_duration"]
           undisturbed == /\ Eff(settings_file)["cache_enabled"]
                          /\ Eff(settings_file')["cache_enabled"]
                          /\ Eff(settings_file)["cache_duration"] = D
       IN  \A e \in Events(calls') :
              (undisturbed /\ e.op = "get_transactions" /\ e.key \in DOMAIN origin)
                 => IF e.at - origin[e.key].t0 <= D
                    THEN /\ e.outcome = "hit"
                         /\ e.attempts = 0
                         /\ e.ret = origin[e.key].data
                    ELSE /\ e.outcome # "hit"
                         /\ e.attempts >= 1]_vars

\* a get_transactions call served from the undisturbed entry at age exactly D
C1_Witness ==
    /\ handler = "get_transactions_data"
    /\ \E e \in Events(calls) :
          /\ e.outcome = "hit"
          /\ e.at - e.ret.read_at = Eff(settings_file)["cache_duration"]
          /\ e.key \in DOMAIN origin
          /\ origin[e.key].t0 = e.ret.read_at

(* C2: while the saved cache_enabled is false, every get_transactions and  *)
(* get_worksheet call asks the upstream, also when a live entry for its    *)
(* key is in the map.                                                      *)
C2_DisabledAlwaysFetches ==
    [][(settings_file'.state = "ok" /\ ~Eff(settings_file')["cache_enabled"])
          => \A e \in Events(calls') :
                e.op \in {"get_transactions", "get_worksheet"}
                   => e.outcome # "hit" /\ e.attempts >= 1]_vars

\* caching is off, a call went to the upstream, and a live entry for its key
\* is in the map
C2_Witness ==
    /\ settings_file.state = "ok"
    /\ ~Eff(settings_file)["cache_enabled"]
    /\ \E e \in Events(calls) :
          /\ e.op \in {"get_transactions", "get_worksheet"}
          /\ e.attempts >= 1
          /\ e.key \in DOMAIN cache
          /\ e.at - cache[e.key].timestamp <= Eff(settings_file)["cache_duration"]

(* C3: a lookup returns the stored payload exactly when caching is enabled,*)
(* the key has an entry and now - timestamp <= the cache_duration the      *)
(* settings store holds at the lookup; the duration in force when the      *)
(* entry was stored plays no role.                                         *)
C3_ValidIffWithinCurrentDuration ==
    [][\A e \in Events(calls') :
          /\ e.outcome = "hit"
                <=> /\ Eff(settings_file')["cache_enabled"]
                    /\ e.key \in DOMAIN cache
                    /\ e.at - cache[e.key].timestamp <= Eff(settings_file')["cache_duration"]
          /\ e.outcome = "hit" => e.ret = cache[e.key].data]_vars

\* the settings were just saved and the prefetch that follows is served an
\* entry of age 300, valid under the duration now in the store
C3_Witness ==
    /\ handler = "update_settings"
    /\ \E e \in Events(calls) :
          /\ e.outcome = "hit"
          /\ e.at - cache[e.key].timestamp = Eff(settings_file)["cache_duration"]
          /\ e.ret = cache[e.key].data

(* C4: get_transactions attempts the sheet fetch at most MAX_RETRIES times,*)
(* stops at the first success, sleeps 2^k seconds after the k-th failed    *)
(* attempt (k = 0, 1) and not after the last, and returns the empty list   *)
(* without raising when all attempts fail.                                 *)
C4_BoundedRetries ==
    \A e \in Events(calls) :
       (e.op = "get_transactions" /\ e.outcome # "hit")
          => /\ e.attempts >= 1
             /\ e.attempts <= MAX_RETRIES
             /\ e.attempts = IF e.up.fails < MAX_RETRIES THEN e.up.fails + 1 ELSE MAX_RETRIES
             /\ Len(e.slept) = e.attempts - 1
             /\ \A k \in 1..Len(e.slept) : e.slept[k] = 2 ^ (k - 1)
             /\ now >= e.at + SumSeq(e.slept)
             /\ (e.up.fails >= MAX_RETRIES) => (e.ret = EmptyList /\ ~e.raised)

\* all three attempts failed: two sleeps, an empty list returned
C4_Witness ==
    \E e \in Events(calls) :
       /\ e.op = "get_transactions"
       /\ e.attempts = MAX_RETRIES
       /\ e.slept = <<1, 2>>
       /\ e.ret = EmptyList
       /\ e.outcome = "failed"

C6_CategoriesAtMostDurationOld ==
    \A e \in Events(calls) :
       (/\ e.op = "get_all_categories_api"
        /\ ~e.raised
        /\ Eff(settings_file)["cache_enabled"]
        /\ DefsKey \in DOMAIN origin
        /\ origin[DefsKey].data.read_at = e.ret.read_at)
          => e.at - e.ret.read_at <= Eff(settings_file)["cache_duration"]

(* C7: clear_cache, whatever the cache_enabled setting, leaves the map     *)
(* empty and sets last_cleared to the current time; a get_transactions or  *)
(* get_worksheet call that finds the map empty asks the upstream.          *)
C7_ClearEmptiesTheMap ==
    [][/\ handler' = "clear_cache_handler"
             => /\ cache' = EmptyDict
                /\ cache_stats'["last_cleared"] = now'
                /\ cache_stats'["size"] = 0
       /\ cache = EmptyDict
             => \A e \in Events(calls') :
                   e.op \in {"get_transactions", "get_worksheet"}
                      => e.outcome # "hit" /\ e.attempts >= 1]_vars

\* the cache was cleared, with caching disabled, at a time after start-up and
\* after lookups had been counted
C7_Witness ==
    /\ handler = "clear_cache_handler"
    /\ ~Eff(settings_file)["cache_enabled"]
    /\ now > 0
    /\ cache_stats["last_cleared"] = now
    /\ cache_stats["hits"] > 0
    /\ cache = EmptyDict

(* C8 as stated: after clear_cache the hits, misses and saved_api_calls    *)
(* counters and the size are 0.                                            *)
C8_ClearResetsCounters ==
    handler = "clear_cache_handler"
       => /\ cache_stats["hits"] = 0
          /\ cache_stats["misses"] = 0
          /\ cache_stats["saved_api_calls"] = 0
          /\ cache_stats["size"] = 0

(* C9: get_cache_stats changes neither the map nor a counter; the returned *)
(* current_size is the number of entries, hit_rate is hits/(hits+misses)   *)
(* and 0 when there were no lookups, and writing into the returned mapping *)
(* leaves the counters as they were.                                       *)
C9_StatsSnapshotReadOnly ==
    [][handler' = "update_cache_stats"
          => LET v == snapshot'.val
                 total == cache_stats["hits"] + cache_stats["misses"]
             IN  /\ cache' = cache
                 /\ cache_stats' = cache_stats
                 /\ v["current_size"] = Cardinality(DOMAIN cache)
                 /\ v["hit_rate"].den > 0
                 /\ IF total = 0
                    THEN v["hit_rate"].num = 0
                    ELSE v["hit_rate"].num * total = cache_stats["hits"] * v["hit_rate"].den
                 /\ v["hits"] \in {cache_stats["hits"], -1}
                 /\ \A k \in DOMAIN cache_stats \ {"hits"} : v[k] = cache_stats[k]]_vars

\* the caller overwrote hits in the mapping it was given; the counter and
\* the entries are still there
C9_Witness ==
    /\ handler = "update_cache_stats"
    /\ snapshot.val["hits"] = -1
    /\ cache_stats["hits"] > 0
    /\ snapshot.val["current_size"] > 0
    /\ snapshot.val["current_size"] = Cardinality(DOMAIN cache)

(* C10: sum_values_by_criteria returns 0 and does not raise, whatever the  *)
(* criteria, when the table has no rows or the value column is not a       *)
(* column of the table.                                                    *)
C10_ZeroOnEmptyOrMissingColumn ==
    (result.called /\ (Len(table.rows) = 0 \/ column \notin table.columns))
       => (~result.raised /\ result.ret = 0)

\* rows are there, the value column is not, and the criteria hold a value
\* condition whose manual filter would raise: 0 came back
C10_Witness ==
    /\ result.called
    /\ Len(table.rows) > 0
    /\ table.columns # {}
    /\ column \notin table.columns
    /\ \E i \in 1..Len(kwargs) :
          /\ kwargs[i].key = "VALUE_CONDITION"
          /\ kwargs[i].value.text = <<">", " ", "x">>
    /\ ~result.raised
    /\ result.ret = 0

----------------------------------------------------------------------------
(* Vocabulary of the aggregator's claims *)

\* the number a value text stands for: currency suffix and thousands
\* separators removed, blanks stripped
Coerced(text) == float(str_strip(str_replace(str_replace(text, <<"K", "c">>), <<",">>)))

AllCoerce(df, value_key) ==
    \A i \in 1..Len(df.rows) : ~Coerced(df.rows[i][value_key]).raised

ConditionsWellFormed(criteria_items) ==
    \A k \in 1..Len(criteria_items) :
       criteria_items[k].key = "VALUE_CONDITION"
          => ~ParseComparison(criteria_items[k].value.text).raised

\* whether a row satisfies one criterion.  as_stated: a scalar is always
\* compared for equality; otherwise a text scalar holding a comparison
\* operator is a query expression on a text field: ignored when it raises
\* (it does not parse, or it orders a text with a number), and an equality
\* with a number holds for no row
Satisfies(row, item, df, value_key, as_stated) ==
    IF item.key = "VALUE_CONDITION"
    THEN LET q == ParseComparison(item.value.text)
         IN  Compare(q.op, Coerced(row[value_key]).ret, q.threshold)
    ELSE IF item.key \notin df.columns
    THEN TRUE
    ELSE IF item.value.kind = "list"
    THEN row[item.key] \in item.value.items
    ELSE IF as_stated \/ ~HasOperator(item.value.text)
    THEN row[item.key] = item.value.text
    ELSE LET q == ParseComparison(item.value.text)
         IN  q.raised \/ q.op # <<"=", "=">>

Qualifying(df, value_key, criteria_items, as_stated) ==
    {i \in 1..Len(df.rows) :
        \A k \in 1..Len(criteria_items) :
           Satisfies(df.rows[i], criteria_items[k], df, value_key, as_stated)}

CoercedSum(df, value_key, S) ==
    SumOf([i \in 1..Len(df.rows) |-> Coerced(df.rows[i][value_key]).ret], S)

C11_Case ==
    /\ result.called
    /\ Len(table.rows) > 0
    /\ column \in table.columns
    /\ AllCoerce(table, column)
    /\ ConditionsWellFormed(kwargs)

Without(criteria_items, k) ==
    SubSeq(criteria_items, 1, k - 1) \o SubSeq(criteria_items, k + 1, Len(criteria_items))

UnknownField(df, item) ==
    item.key \notin df.columns /\ item.key # "VALUE_CONDITION"

(* C12: a criterion on a field that is not a column of the table is        *)
(* ignored: the call returns, or raises, exactly as the same call without  *)
(* that criterion.                                                         *)
C12_UnknownFieldIgnored ==
    result.called
       => \A k \in 1..Len(kwargs) :
             UnknownField(table, kwargs[k])
                => LET r == sum_values_by_criteria(table, column, Without(kwargs, k))
                   IN  result.raised = r.raised /\ result.ret = r.ret

\* a MONTH criterion on a table without a MONTH column, next to a CATEGORY
\* criterion that keeps one row and drops the other
C12_Witness ==
    /\ result.called
    /\ ~result.raised
    /\ table.columns = {"VALUE", "CATEGORY"}
    /\ column = "VALUE"
    /\ Len(table.rows) = 2
    /\ \E k \in 1..Len(kwargs) : kwargs[k].key = "MONTH"
    /\ \E k \in 1..Len(kwargs) : kwargs[k].key = "CATEGORY"
    /\ result.ret = 1000
    /\ CoercedSum(table, column, 1..2) = 997

\* the table without the rows whose value is the empty string
WithoutEmptyValues(df, value_key) ==
    [df EXCEPT !.rows = SelectSeq(df.rows, LAMBDA r : r[value_key] # <<>>)]

(* C13 as stated: a row whose value is the empty string counts as zero:    *)
(* the call returns, or raises, exactly as on the table without such rows. *)
C13_EmptyValueCountsAsZero ==
    (/\ result.called
     /\ column \in table.columns
     /\ \E i \in 1..Len(table.rows) : table.rows[i][column] = <<>>)
       => LET r == sum_values_by_criteria(WithoutEmptyValues(table, column), column, kwargs)
          IN  result.raised = r.raised /\ result.ret = r.ret

(* C14 as stated: when the value condition does not evaluate as a query,   *)
(* the call still returns a number (on a table whose values all coerce).   *)
C14_MalformedConditionNeverRaises ==
    (/\ result.called
     /\ Len(table.rows) > 0
     /\ column \in table.columns
     /\ AllCoerce(table, column)
     /\ ~ConditionsWellFormed(kwargs))
       => ~result.raised

----------------------------------------------------------------------------
(* Vocabulary of the derived operations' claims *)

\* the aggregator has numbers to sum: it returns 0 at once, or every value
\* coerces
SumDefined(df) ==
    DataFrameEmpty(df) \/ "VALUE" \notin df.columns \/ AllCoerce(df, "VALUE")

\* the sum of the values of the rows in the categories (and in the month)
Total(df, categories, month) ==
    IF DataFrameEmpty(df) \/ "VALUE" \notin df.columns
    THEN 0
    ELSE CoercedSum(df, "VALUE", Qualifying(df, "VALUE", CriteriaFor(categories, month), FALSE))

(* C15: calculate_expense_ratio returns the infinite sentinel whenever the *)
(* summed income of the selected categories and month is zero, also for an *)
(* empty table and whatever the expense total; otherwise it returns        *)
(* |expense sum| / income sum.  It raises only when a value does not       *)
(* coerce, never for the division.                                         *)
C15_InfiniteWhenIncomeZero ==
    (result.called /\ args.func = "calculate_expense_ratio")
       => LET income == Total(table, args.income_categories, args.month)
              expenses == Total(table, args.expense_categories, args.month)
          IN  /\ result.raised <=> ~SumDefined(table)
              /\ ~result.raised
                    => IF income = 0
                       THEN result.ret = Infinite
                       ELSE /\ ~result.ret.inf
                            /\ result.ret.num = Abs(expenses)
                            /\ result.ret.den = income

\* no income, an expense total that is not zero, the sentinel returned
C15_Witness ==
    /\ result.called
    /\ args.func = "calculate_expense_ratio"
    /\ ~result.raised
    /\ Total(table, args.income_categories, args.month) = 0
    /\ Total(table, args.expense_categories, args.month) = -3
    /\ result.ret = Infinite

\* the rows of category c (in the month, if one is given) with a negative
\* value
NegativeRows(df, c, month) ==
    {i \in 1..Len(df.rows) :
        /\ df.rows[i]["CATEGORY"] = c
        /\ month # <<>> => df.rows[i]["MONTH"] = month
        /\ Coerced(df.rows[i]["VALUE"]).ret < 0}

Magnitude(df, c, month) == 0 - CoercedSum(df, "VALUE", NegativeRows(df, c, month))

(* C16: every value of the mapping sum_expenses_by_category returns is     *)
(* non-negative: each listed category that has rows with a negative value  *)
(* (in the month, if given) is mapped to the magnitude of the sum of       *)
(* those rows, rows with a positive value are not counted, and when no     *)
(* category is left the mapping is {'No Expenses': 0}.                     *)
C16_ExpensesNonNegative ==
    (result.called /\ args.func = "sum_expenses_by_category" /\ ~result.raised)
       => LET month == args.month
              spent == {c \in args.expense_categories : Magnitude(table, c, month) > 0}
          IN  /\ \A c \in DOMAIN result.ret : result.ret[c] >= 0
              /\ IF spent = {}
                 THEN result.ret = [c \in {NoExpenses} |-> 0]
                 ELSE /\ DOMAIN result.ret = spent
                      /\ \A c \in spent : result.ret[c] = Magnitude(table, c, month)

\* a listed category with one row of -3 and one row of 1000: its total is 3
C16_Witness ==
    /\ result.called
    /\ args.func = "sum_expenses_by_category"
    /\ ~result.raised
    /\ Len(table.rows) = 2
    /\ \A i \in 1..2 : table.rows[i]["CATEGORY"] = <<"F">>
    /\ CoercedSum(table, "VALUE", 1..2) = 997
    /\ result.ret = [c \in {<<"F">>} |-> 3]

(* C17 as stated: compute_cashflow returns the income sum minus the        *)
(* expense total, the magnitude of the expense sum that                    *)
(* calculate_expense_ratio divides by the income.                          *)
C17_CashflowIsIncomeMinusExpenseTotal ==
    (result.called /\ args.func = "compute_cashflow" /\ ~result.raised)
       => LET ratio == calculate_expense_ratio(table, args.income_categories,
                                               args.expense_categories, args.month)
              income == Total(table, args.income_categories, args.month)
          IN  /\ result.ret = income - Abs(Total(table, args.expense_categories, args.month))
              /\ (~ratio.raised /\ ~ratio.ret.inf) => result.ret = income - ratio.ret.num

\* the derived operation named by a, applied to df
Derived(df, a) ==
    CASE a.func = "compute_cashflow" ->
            compute_cashflow(df, a.income_categories, a.expense_categories, a.month)
      [] a.func = "calculate_expense_ratio" ->
            calculate_expense_ratio(df, a.income_categories, a.expense_categories, a.month)
      [] a.func = "sum_expenses_by_category" ->
            sum_expenses_by_category(df, a.expense_categories, a.month)

\* rows over the columns of df whose CATEGORY is in none of the lists of a,
\* their VALUE drawn from value_texts
UnlistedRows(df, a, value_texts) ==
    {r \in [df.columns -> value_texts \cup CategoryTexts \cup MonthTexts \cup {<<"O">>}] :
        /\ "CATEGORY" \in df.columns
        /\ r["CATEGORY"] \in (CategoryTexts \cup {<<"O">>})
                                \ (a.income_categories \cup a.expense_categories)
        /\ \A c \in df.columns \ {"CATEGORY"} :
              r[c] \in IF c = "VALUE" THEN value_texts ELSE CellTexts(c)}

(* C18 as stated: a row whose CATEGORY is in none of the category lists    *)
(* contributes to no aggregate: with such a row added to the table,        *)
(* compute_cashflow, calculate_expense_ratio and sum_expenses_by_category  *)
(* return what they return without it.                                     *)
C18_UnlistedRowsChangeNothing ==
    (result.called /\ ~result.raised)
       => \A r \in UnlistedRows(table, args, ValueTexts \cup {<<"x">>}) :
             LET with == Derived([table EXCEPT !.rows = Append(table.rows, r)], args)
             IN  ~with.raised /\ with.ret = result.ret

----------------------------------------------------------------------------
(* Vocabulary of the classification's claims *)

CategoryLists == {"income_categories", "expense_categories", "saving_categories",
                  "investing_categories"}

PairwiseDisjoint(lists) ==
    \A a, b \in CategoryLists : a # b => Range(lists[a]) \cap Range(lists[b]) = {}

ListedTypes == {"income", "expense", "saving", "investment"}

\* no description stands in the sheet under two of the four types
OneTypePerDescription(definitions) ==
    \A i, j \in 1..Len(definitions.rows) :
       (/\ definitions.rows[i].description = definitions.rows[j].description
        /\ definitions.rows[i].type \in ListedTypes
        /\ definitions.rows[j].type \in ListedTypes)
          => definitions.rows[i].type = definitions.rows[j].type

(* C19 as stated: the four lists get_all_categories_api returns are        *)
(* pairwise disjoint, whatever the definitions sheet holds.                *)
C19_CategoryListsDisjoint ==
    (result.called /\ ~result.raised) => PairwiseDisjoint(result.ret)

(* C19 as amended: each list holds, in sheet order, the descriptions of    *)
(* the rows of its type, so every row is in at most one list; the lists    *)
(* are pairwise disjoint exactly when no description stands in the sheet   *)
(* under two of the four types.                                            *)
C19_DisjointIffOneTypePerDescription ==
    (result.called /\ ~result.raised)
       => /\ PairwiseDisjoint(result.ret) <=> OneTypePerDescription(table)
          /\ Len(result.ret.income_categories) + Len(result.ret.expense_categories)
                + Len(result.ret.saving_categories) + Len(result.ret.investing_categories)
             = Cardinality({i \in 1..Len(table.rows) : table.rows[i].type \in ListedTypes})
          /\ \A i \in 1..Len(table.rows) :
                /\ table.rows[i].type = "income"
                      => table.rows[i].description \in Range(result.ret.income_categories)
                /\ table.rows[i].type = "expense"
                      => table.rows[i].description \in Range(result.ret.expense_categories)
                /\ table.rows[i].type = "saving"
                      => table.rows[i].description \in Range(result.ret.saving_categories)
                /\ table.rows[i].type = "investment"
                      => table.rows[i].description \in Range(result.ret.investing_categories)

\* description A stands under income and under expense: it is in both lists
C19_Witness ==
    /\ result.called
    /\ ~result.raised
    /\ \E i, j \in 1..Len(table.rows) :
          /\ table.rows[i] = [type |-> "income", description |-> "A"]
          /\ table.rows[j] = [type |-> "expense", description |-> "A"]
    /\ "A" \in Range(result.ret.income_categories) \cap Range(result.ret.expense_categories)

----------------------------------------------------------------------------
(* Vocabulary of the top-five claim *)

\* the rows of the table that carry the category
OfCategory(df, category) ==
    {i \in 1..Len(df.rows) : df.rows[i]["CATEGORY"] = category}

SignedValue(df, i) == Coerced(df.rows[i]["VALUE"]).ret

(* C20: top_5_highest_transactions(T, c) returns at most 5 rows, each a    *)
(* row of T with CATEGORY = c and none twice, in descending order of the   *)
(* signed numeric value; no row of category c that was left out has a      *)
(* larger value than a returned row; with fewer than 5 rows of category c  *)
(* all of them are returned.  The call returns whenever T has the columns  *)
(* CATEGORY and VALUE and the value of every row of category c coerces.    *)
C20_TopFiveOfCategory ==
    (result.called /\ args.func = "top_5_highest_transactions")
       => LET of_c == OfCategory(table, args.category)
              ret == result.ret
          IN  /\ ({"CATEGORY", "VALUE"} \subseteq table.columns
                   /\ \A i \in of_c : ~Coerced(table.rows[i]["VALUE"]).raised)
                    => ~result.raised
              /\ ~result.raised
                    => /\ Len(ret) <= 5
                       /\ Range(ret) \subseteq of_c
                       /\ \A k, l \in 1..Len(ret) : k # l => ret[k] # ret[l]
                       /\ \A k, l \in 1..Len(ret) :
                             k < l => SignedValue(table, ret[k]) >= SignedValue(table, ret[l])
                       /\ \A i \in of_c \ Range(ret) : \A k \in 1..Len(ret) :
                             SignedValue(table, i) <= SignedValue(table, ret[k])
                       /\ Cardinality(of_c) < 5 => Range(ret) = of_c
                       /\ Cardinality(of_c) >= 5 => Len(ret) = 5

\* six rows of the category, the largest value last in the table: it is
\* returned first and a smaller row is left out
C20_Witness ==
    /\ result.called
    /\ ~result.raised
    /\ args.func = "top_5_highest_transactions"
    /\ Cardinality(OfCategory(table, args.category)) = 6
    /\ Len(result.ret) = 5
    /\ result.ret[1] = 6
    /\ \E i \in OfCategory(table, args.category) \ Range(result.ret) :
          SignedValue(table, i) < SignedValue(table, result.ret[1])

----------------------------------------------------------------------------
(* C21: load_settings never fails on a missing or corrupt store: it        *)
(* returns the default of every recognized option (cache_enabled,          *)
(* cache_duration, prefetch_enabled, use_fundamental_expenses) and leaves  *)
(* a valid store behind, so that the following load returns the same       *)
(* values; on a readable store every stored option keeps its value and     *)
(* only the options absent from the store get their default.               *)
C21_LoadSettingsDefaults ==
    (result.called /\ args.func = "load_settings")
       => /\ ~result.raised
          /\ settings_file.state = "ok"
          /\ result.ret = load_settings(settings_file).settings
          /\ \A k \in DOMAIN RecognizedDefaults :
                /\ k \in DOMAIN result.ret
                /\ result.ret[k] = IF args.store.state = "ok" /\ k \in DOMAIN args.store.dict
                                   THEN args.store.dict[k]
                                   ELSE RecognizedDefaults[k]
          /\ args.store.state = "ok" => settings_file = args.store

----------------------------------------------------------------------------
(* C22: save_settings is an atomic overwrite: a load_settings that runs    *)
(* while a save is in progress reads the complete old settings or the      *)
(* complete new settings, never an empty or partial store, and so never    *)
(* takes the store for corrupt and replaces the saved settings with the    *)
(* defaults.                                                               *)
C22_SaveIsAtomic ==
    args.func = "save_settings"
       => \A t \in DOMAIN threads :
             /\ \A i \in 1..Len(threads[t].observed) :
                   \/ threads[t].observed[i] = args.store
                   \/ threads[t].observed[i] =
                         OnDisk(Saved(load_settings(args.store).settings,
                                      threads["saver"].chosen))
             /\ threads[t].pc \notin {"default_open", "default_write"}

----------------------------------------------------------------------------
(* C23: fetched records are never modified: no aggregation changes the     *)
(* table it is given, and the payload a cache hit returns is the payload   *)
(* that was stored, which the aggregation on it leaves as it was stored.   *)
C23_RecordsNeverModified ==
    (result.called /\ "given" \in DOMAIN args)
       => LET cache_key == _get_cache_key(SPREADSHEET_NAME, "transactions", "")
          IN  /\ table = args.given
              /\ result.ret = args.given
              /\ cache_key \in DOMAIN cache
              /\ cache[cache_key] = [timestamp |-> 0, data |-> args.given]

\* an aggregation ran on a table whose VALUE column it had to coerce
C23_Witness ==
    /\ result.called
    /\ "given" \in DOMAIN args
    /\ args.func = "compute_cashflow"
    /\ Len(table.rows) = 2
    /\ table.rows[1]["VALUE"] = <<"1", "0", "0", "0", "K", "c">>
    /\ Coercible(table, "VALUE")
    /\ cache_stats["hits"] = 1

----------------------------------------------------------------------------
(* C24: in every step each key's entry stays identical, or is replaced as  *)
(* a whole by (time of the store, payload the call just obtained), or is   *)
(* removed; it is removed only by a lookup of that key that finds it       *)
(* expired or by clear_cache.  A hit leaves the entry's timestamp as it    *)
(* was, and an expired entry that is not read stays in the map and in the  *)
(* size count.                                                             *)
C24_EntriesReplacedOrRemovedWhole ==
    [][/\ \A k \in DOMAIN cache \cup DOMAIN cache' :
             LET evs == {e \in Events(calls') : e.key = k}
             IN  \/ /\ k \in DOMAIN cache
                    /\ k \in DOMAIN cache'
                    /\ cache'[k] = cache[k]
                 \/ /\ k \in DOMAIN cache'
                    /\ \E e \in evs :
                          /\ e.outcome \in {"fetched", "computed"}
                          /\ cache'[k].data = e.ret
                          /\ e.at <= cache'[k].timestamp
                          /\ cache'[k].timestamp <= now'
                          /\ k \in DOMAIN cache
                                => e.at - cache[k].timestamp > Eff(settings_file').cache_duration
                 \/ /\ k \in DOMAIN cache
                    /\ k \notin DOMAIN cache'
                    /\ \/ handler' = "clear_cache_handler"
                       \/ \E e \in evs :
                             /\ e.outcome # "hit"
                             /\ Eff(settings_file').cache_enabled
                             /\ e.at - cache[k].timestamp > Eff(settings_file').cache_duration
       /\ \A e \in Events(calls') :
             e.outcome = "hit" => e.key \in DOMAIN cache /\ cache'[e.key] = cache[e.key]
       /\ cache_stats'["size"] = Cardinality(DOMAIN cache')]_vars

\* a hit on the transactions has just been served while the expired
\* definitions entry, which nobody read, is still in the map and counted
C24_Witness ==
    /\ phase = "replying"
    /\ \E e \in Events(calls) : e.outcome = "hit" /\ e.key = TxKey
    /\ TxKey \in DOMAIN cache
    /\ cache[TxKey].timestamp < now
    /\ DefsKey \in DOMAIN cache
    /\ now - cache[DefsKey].timestamp > Eff(settings_file).cache_duration
    /\ cache_stats["size"] = Cardinality(DOMAIN cache)
    /\ cache_stats["size"] >= 2

----------------------------------------------------------------------------
\* -sum_values_by_criteria(df, 'VALUE', CATEGORY=[c], MONTH=month,
\* VALUE_CONDITION='< 0'), MONTH left out when no month is given
NegativeTotal(df, c, month) ==
    sum_values_by_criteria(df, "VALUE",
        <<[key |-> "VALUE_CONDITION", value |-> TextValue(<<"<", " ", "0">>)]>>
           \o CriteriaFor({c}, month))

(* C25: sum_expenses_by_category agrees with the aggregator: for every     *)
(* table, category list and month it returns the mapping that sends each   *)
(* listed category c with a non-zero total to                              *)
(* -sum_values_by_criteria(table, VALUE, CATEGORY=[c], MONTH=month,        *)
(* VALUE_CONDITION='< 0') and has no other key (the empty mapping when no  *)
(* listed category has a negative row); it raises only where the           *)
(* aggregator raises.                                                      *)
C25_BreakdownAgreesWithAggregator ==
    (result.called /\ args.func = "sum_expenses_by_category")
       => LET totals == [c \in args.expense_categories |->
                            NegativeTotal(table, c, args.month)]
          IN  IF \E c \in args.expense_categories : totals[c].raised
              THEN result.raised
              ELSE /\ ~result.raised
                   /\ result.ret = [c \in {x \in args.expense_categories : totals[x].ret # 0} |->
                                       0 - totals[c].ret]

----------------------------------------------------------------------------
(* C26: cache keys are injective in the request: two requests that differ  *)
(* in spreadsheet name, worksheet name, range parameters or kind never     *)
(* have the same key, so no call is served a payload that was stored for   *)
(* a different request.                                                    *)
C26_KeysInjective ==
    (args.func = "requests" /\ args.served = 2 /\ args.requests[1] # args.requests[2])
       => /\ KeyOf(args.requests[1]) # KeyOf(args.requests[2])
          /\ calls[Len(calls)].outcome # "hit"

----------------------------------------------------------------------------
\* the get_transactions calls of a log that ended without rows: every fetch
\* attempt failed, or the sheet had no rows at all
Unsuccessful(log) ==
    {e \in Events(log) : e.op = "get_transactions" /\ e.outcome \in {"failed", "empty"}}

\* the entries a call for another key of the same handler did not touch
Untouched(log, key) ==
    {k \in DOMAIN cache \cup DOMAIN cache' : k # key /\ \A e \in Events(log) : e.key # k}

(* C27: an unsuccessful get_transactions call (all fetch attempts failed,  *)
(* or the upstream returned no rows at all) leaves no entry for its key in *)
(* the cache map and leaves every other entry unchanged.                   *)
C27_UnsuccessfulCallLeavesNoEntry ==
    [][\A e \in Unsuccessful(calls') :
          /\ e.key \notin DOMAIN cache'
          /\ \A k \in Untouched(calls', e.key) :
                k \in DOMAIN cache /\ k \in DOMAIN cache' /\ cache'[k] = cache[k]]_vars

(* C27 as the code has it: an unsuccessful get_transactions call stores    *)
(* nothing.  While caching is enabled no entry for its key is left (an     *)
(* expired one is deleted by the lookup), while caching is disabled an     *)
(* entry stored earlier under its key stays as it was; every other entry   *)
(* is unchanged.  A later get_transactions call that finds no entry for    *)
(* its key is never served from the cache.                                 *)
C27_UnsuccessfulCallStoresNothing ==
    [][/\ \A e \in Unsuccessful(calls') :
             /\ Eff(settings_file').cache_enabled => e.key \notin DOMAIN cache'
             /\ ~Eff(settings_file').cache_enabled
                   => /\ e.key \in DOMAIN cache' <=> e.key \in DOMAIN cache
                      /\ e.key \in DOMAIN cache => cache'[e.key] = cache[e.key]
             /\ \A k \in Untouched(calls', e.key) :
                   k \in DOMAIN cache /\ k \in DOMAIN cache' /\ cache'[k] = cache[k]
       /\ \A e \in Events(calls') :
             (e.op = "get_transactions" /\ e.key \notin DOMAIN cache) => e.outcome # "hit"]_vars

\* the sheet had no rows while caching was enabled: nothing is stored under
\* the key of the call, and the definitions entry stored earlier is still held
C27_Witness ==
    /\ phase = "replying"
    /\ handler = "get_transactions_data"
    /\ \E e \in Unsuccessful(calls) : e.key = TxKey /\ e.outcome = "empty"
    /\ Eff(settings_file).cache_enabled
    /\ TxKey \notin DOMAIN cache
    /\ DefsKey \in DOMAIN cache
    /\ cache_stats["size"] = 1

----------------------------------------------------------------------------
(* C28: while cache_enabled is false, get_transactions, get_worksheet and  *)
(* get_all_categories_api leave the cache map unchanged: no entry is       *)
(* added, replaced or removed, not even an expired one.  An entry stored   *)
(* before caching was disabled is therefore served again once caching is   *)
(* enabled, if it is still within the duration.                            *)
C28_DisabledLeavesMapUnchanged ==
    [][/\ (Events(calls') # {} /\ ~Eff(settings_file').cache_enabled)
             => /\ cache' = cache
                /\ \A e \in Events(calls') : e.outcome # "hit"
       /\ \A e \in Events(calls') :
             (/\ Eff(settings_file').cache_enabled
              /\ e.key \in DOMAIN cache
              /\ e.at - cache[e.key].timestamp <= Eff(settings_file').cache_duration)
                => e.outcome = "hit" /\ e.ret = cache[e.key].data]_vars

\* with caching disabled the transactions have just been fetched anew, and
\* the expired entry stored earlier under the same key is still in the map
C28_Witness ==
    /\ phase = "replying"
    /\ handler = "get_transactions_data"
    /\ ~Eff(settings_file).cache_enabled
    /\ TxKey \in DOMAIN cache
    /\ \E e \in Events(calls) :
          /\ e.key = TxKey
          /\ e.outcome = "fetched"
          /\ e.ret # cache[TxKey].data
          /\ e.at - cache[TxKey].timestamp > Eff(settings_file).cache_duration
    /\ cache_stats["size"] = Cardinality(DOMAIN cache)

----------------------------------------------------------------------------
\* the number of cache lookups made by the calls of a log under the settings
\* in `file`: one by each get_transactions and get_worksheet call, and one by
\* the wrapper of get_all_categories_api when caching is enabled
LookupsMade(log, file) ==
    Cardinality({i \in 1..Len(log) :
                    \/ log[i].op \in {"get_transactions", "get_worksheet"}
                    \/ Eff(file).cache_enabled})

HitsMade(log) == Cardinality({i \in 1..Len(log) : log[i].outcome = "hit"})

(* C29: after every operation, in any order (store, hit, miss, expiry,    *)
(* clear_cache, caching toggled in between), the size counter equals the   *)
(* number of entries in the map and saved_api_calls equals hits, and every *)
(* cache lookup has incremented exactly one of hits and misses by exactly  *)
(* one: a lookup that is served increments hits, every other one, a lookup *)
(* while caching is disabled included, increments misses.                  *)
C29_EveryLookupCountedOnce ==
    [][/\ cache_stats'["hits"] = cache_stats["hits"] + HitsMade(calls')
       /\ cache_stats'["misses"] = cache_stats["misses"]
                                     + LookupsMade(calls', settings_file') - HitsMade(calls')
       /\ cache_stats'["size"] = Cardinality(DOMAIN cache')
       /\ cache_stats'["saved_api_calls"] = cache_stats'["hits"]]_vars

\* a lookup has just been made while caching is disabled, after a store, a
\* hit, an expiry or a miss, and a clear_cache
C29_Witness ==
    /\ phase = "replying"
    /\ ~Eff(settings_file).cache_enabled
    /\ \E e \in Events(calls) : e.op = "get_transactions" /\ e.outcome = "fetched"
    /\ cache_stats["hits"] >= 1
    /\ cache_stats["misses"] >= 3
    /\ cache_stats["last_cleared"] > 0
    /\ cache_stats["size"] >= 1

----------------------------------------------------------------------------
(* C30: when the cache operations of several requests interleave, no       *)
(* interleaving makes a call fail: a lookup that has read an expired entry *)
(* and then deletes it, running concurrently with clear_cache or with      *)
(* another expired lookup of the same key, still lets every                *)
(* get_transactions and get_worksheet call return a payload or an empty    *)
(* result, and the map only ever holds complete (timestamp, payload)       *)
(* entries.                                                                *)
C30_NoInterleavingFails ==
    /\ \A t \in DOMAIN threads :
          /\ ~threads[t].raised
          /\ (threads[t].pc = "done" /\ threads[t].kind # "clear_cache")
                => threads[t].ret # None
    /\ \A k \in DOMAIN cache :
          /\ DOMAIN cache[k] = {"timestamp", "data"}
          /\ cache[k].timestamp \in 0..now
          /\ cache[k].data # None

====
